---- MODULE Spec2Model ----
(***************************************************************************)
(* The tool-call dispatch and translation layer of the JIRA and Bitbucket  *)
(* MCP servers: the tool registries (list_tools), the dispatchers          *)
(* (call_tool), the remote API clients (JiraClient, BitbucketClient) and   *)
(* the document-to-text extractor.                                         *)
(*                                                                         *)
(* A dispatch is a coroutine.  CallTool runs the handler up to its first   *)
(* await (or to its return when nothing is awaited), HttpResponse resumes  *)
(* the handler with the reply of the awaited HTTP call and runs it to the  *)
(* next await or to its return, Return hands the result to the transport.  *)
(***************************************************************************)
EXTENDS Integers, Sequences, FiniteSets, TLC

VARIABLES
    server,  \* which server this process is: "jira" or "bitbucket"
    ctor,    \* the inputs its client was constructed from
    client,  \* its client object (jira_client, bitbucket_client)
    calls,   \* the dispatches in progress, one record per slot
    listed   \* what the last call of list_tools returned, <<>> before it

vars == <<server, ctor, client, calls, listed>>

(***************************************************************************)
(* JSON values (Python's None, str, int, bool, list, dict).  A dict keeps  *)
(* its insertion order: it is a sequence of <<key, value>> pairs.          *)
(***************************************************************************)
JNull == [t |-> "null"]
JStr(s) == [t |-> "str", s |-> s]
JNum(n) == [t |-> "num", n |-> n]
JBool(b) == [t |-> "bool", b |-> b]
JList(xs) == [t |-> "list", xs |-> xs]
JObj(kv) == [t |-> "obj", kv |-> kv]

\* `k in d` for a dict d
Has(d, k) == \E i \in 1..Len(d.kv) : d.kv[i][1] = k

\* d[k] for a key the dict holds
At(d, k) == d.kv[CHOOSE i \in 1..Len(d.kv) : d.kv[i][1] = k][2]

\* d.get(k, default)
GetOr(d, k, default) == IF Has(d, k) THEN At(d, k) ELSE default

\* d[k] = v: replaces the value in place, or appends the key
Put(d, k, v) ==
    IF Has(d, k)
    THEN JObj([i \in 1..Len(d.kv) |-> IF d.kv[i][1] = k THEN <<k, v>> ELSE d.kv[i]])
    ELSE JObj(Append(d.kv, <<k, v>>))

\* the dict with k set when cond holds: `if cond: d[k] = v`
PutIf(cond, d, k, v) == IF cond THEN Put(d, k, v) ELSE d

\* Python truthiness: bool(v)
Truthy(v) ==
    CASE v.t = "null" -> FALSE
      [] v.t = "str" -> v.s /= ""
      [] v.t = "num" -> v.n /= 0
      [] v.t = "bool" -> v.b
      [] v.t = "list" -> Len(v.xs) > 0
      [] v.t = "obj" -> Len(v.kv) > 0

\* str(v) as an f-string interpolates it ({issue_key}, {board_id})
Str(v) ==
    CASE v.t = "null" -> "None"
      [] v.t = "str" -> v.s
      [] v.t = "num" -> ToString(v.n)
      [] v.t = "bool" -> IF v.b THEN "True" ELSE "False"
      [] OTHER -> "<object>"

RECURSIVE Spaces(_)
Spaces(n) == IF n <= 0 THEN "" ELSE " " \o Spaces(n - 1)

\* json.dumps(v, indent=2), at nesting depth `level`
RECURSIVE Dumps(_, _), DumpItems(_, _, _)
DumpItems(v, level, i) ==
    LET n == IF v.t = "list" THEN Len(v.xs) ELSE Len(v.kv)
        item == IF v.t = "list"
                THEN Dumps(v.xs[i], level + 1)
                ELSE "\"" \o v.kv[i][1] \o "\": " \o Dumps(v.kv[i][2], level + 1)
    IN  IF i > n THEN ""
        ELSE Spaces(2 * (level + 1)) \o item
             \o (IF i < n THEN ",\n" ELSE "\n")
             \o DumpItems(v, level, i + 1)
Dumps(v, level) ==
    CASE v.t = "null" -> "null"
      [] v.t = "str" -> "\"" \o v.s \o "\""
      [] v.t = "num" -> ToString(v.n)
      [] v.t = "bool" -> (IF v.b THEN "true" ELSE "false")
      [] v.t = "list" ->
            IF Len(v.xs) = 0 THEN "[]"
            ELSE "[\n" \o DumpItems(v, level, 1) \o Spaces(2 * level) \o "]"
      [] v.t = "obj" ->
            IF Len(v.kv) = 0 THEN "{}"
            ELSE "{\n" \o DumpItems(v, level, 1) \o Spaces(2 * level) \o "}"

\* whether `prefix` starts the string s
StartsWith(s, prefix) ==
    Len(s) >= Len(prefix) /\ SubSeq(s, 1, Len(prefix)) = prefix

\* whether null occurs anywhere in v
RECURSIVE HasNull(_)
HasNull(v) ==
    CASE v.t = "null" -> TRUE
      [] v.t = "list" -> \E i \in 1..Len(v.xs) : HasNull(v.xs[i])
      [] v.t = "obj" -> \E i \in 1..Len(v.kv) : HasNull(v.kv[i][2])
      [] OTHER -> FALSE

(***************************************************************************)
(* Python helpers.                                                         *)
(***************************************************************************)
UpperLetters == "ABCDEFGHIJKLMNOPQRSTUVWXYZ"
LowerLetters == "abcdefghijklmnopqrstuvwxyz"

LowerChar(c) ==
    IF \E i \in 1..Len(UpperLetters) : SubSeq(UpperLetters, i, i) = c
    THEN LET i == CHOOSE j \in 1..Len(UpperLetters) : SubSeq(UpperLetters, j, j) = c
         IN  SubSeq(LowerLetters, i, i)
    ELSE c

\* s.lower()
RECURSIVE Lower(_)
Lower(s) ==
    IF Len(s) = 0 THEN ""
    ELSE LowerChar(SubSeq(s, 1, 1)) \o Lower(SubSeq(s, 2, Len(s)))

\* s.rstrip('/')
RECURSIVE RStripSlash(_)
RStripSlash(s) ==
    IF Len(s) > 0 /\ SubSeq(s, Len(s), Len(s)) = "/"
    THEN RStripSlash(SubSeq(s, 1, Len(s) - 1))
    ELSE s

\* whether sub occurs in the string s
Contains(s, sub) ==
    \E i \in 1..(Len(s) - Len(sub) + 1) : SubSeq(s, i, i + Len(sub) - 1) = sub

\* `k in c` for a string k: "yes", "no", or "error" when c is not a container
PyIn(k, c) ==
    CASE c.t = "obj" -> (IF Has(c, k) THEN "yes" ELSE "no")
      [] c.t = "list" ->
            (IF \E i \in 1..Len(c.xs) : c.xs[i] = JStr(k) THEN "yes" ELSE "no")
      [] c.t = "str" -> (IF Contains(c.s, k) THEN "yes" ELSE "no")
      [] OTHER -> "error"

\* what a client method does next: return a value, raise, or await a request
Return_(value) == [kind |-> "return", value |-> value, message |-> ""]
Raise(message) == [kind |-> "raise", value |-> JNull, message |-> message]

(***************************************************************************)
(* The HTTP primitive (httpx.AsyncClient): a request goes out, and either  *)
(* the call raises (no response) or a response comes back.                 *)
(***************************************************************************)
Absent == [t |-> "absent"]

Request(method, url, params, json) ==
    [method |-> method, url |-> url, params |-> params, json |-> json]

\* a reply: error /= "" when the call itself raised; content is the parsed
\* body, or Invalid when the body is not JSON (an empty body, HTML)
Invalid == [t |-> "invalid"]
Reply(error, status_code, content) ==
    [error |-> error, status_code |-> status_code, content |-> content]

\* response.is_success
IsSuccess(reply) == reply.status_code >= 200 /\ reply.status_code <= 299

\* the message of the HTTPStatusError raise_for_status raises
StatusErrorMessage(request, reply) ==
    (IF reply.status_code >= 500 THEN "Server error '" ELSE "Client error '")
    \o ToString(reply.status_code) \o "' for url '" \o request.url \o "'"

\* the message of the JSONDecodeError response.json() raises on a body that
\* is not JSON
JSONDecodeMessage == "Expecting value: line 1 column 1 (char 0)"

\* `await self.client.<method>(...)` then `response.raise_for_status()`:
\* the exception message, or "" when neither raises
AwaitRaises(request, reply) ==
    IF reply.error /= "" THEN reply.error
    ELSE IF ~IsSuccess(reply) THEN StatusErrorMessage(request, reply)
    ELSE ""

\* faulty variant of ReturnJson: the body comes back wrapped in an envelope
ReturnJson_enveloped(reply) ==
    IF reply.content = Invalid THEN Raise(JSONDecodeMessage)
    ELSE Return_(JObj(<< <<"data", reply.content>> >>))

\* `return response.json()`
ReturnJson(reply) ==
    IF reply.content = Invalid THEN Raise(JSONDecodeMessage)
    ELSE Return_(reply.content)

(***************************************************************************)
(* The document-to-text extractor, JiraClient._extract_text_from_doc.       *)
(***************************************************************************)
\* a raise inside the traversal, carried in text_parts' place
Raised(message) == [t |-> "raise", s |-> message]

\* extract(item): what the call appends to text_parts, in order
RECURSIVE extract(_), extract_each(_, _)
\* faulty variant of the loops: the elements are visited right to left
RECURSIVE extract_each_reversed(_, _)
extract_each_reversed(xs, i) ==
    IF i > Len(xs) THEN <<>>
    ELSE extract_each_reversed(xs, i + 1) \o extract(xs[i])

extract_each(xs, i) ==
    IF i > Len(xs) THEN <<>>
    ELSE extract(xs[i]) \o extract_each(xs, i + 1)
\* faulty variant of extract: the text is read with item['text']
extract_strict(item) ==
    IF item.t = "obj"
    THEN LET own == IF GetOr(item, "type", JNull) = JStr("text")
                    THEN (IF Has(item, "text") THEN <<At(item, "text")>>
                          ELSE <<Raised("'text'")>>)
                    ELSE <<>>
             content == GetOr(item, "content", JNull)
         IN  IF ~Has(item, "content") THEN own
             ELSE CASE content.t = "list" -> own \o extract_each(content.xs, 1)
                    [] content.t \in {"obj", "str"} -> own
                    [] OTHER -> Append(own, Raised("object is not iterable"))
    ELSE IF item.t = "list" THEN extract_each(item.xs, 1)
    ELSE <<>>

extract(item) ==
    IF item.t = "obj"
    THEN LET own == IF GetOr(item, "type", JNull) = JStr("text")
                    THEN <<GetOr(item, "text", JStr(""))>>
                    ELSE <<>>
             content == GetOr(item, "content", JNull)
         IN  IF ~Has(item, "content") THEN own
             ELSE CASE content.t = "list" -> own \o extract_each(content.xs, 1)
                    [] content.t \in {"obj", "str"} -> own
                    [] OTHER -> Append(own, Raised("object is not iterable"))
    ELSE IF item.t = "list" THEN extract_each(item.xs, 1)
    ELSE <<>>

\* ' '.join(parts) of strings
RECURSIVE Join(_)
Join(parts) ==
    IF Len(parts) = 0 THEN ""
    ELSE IF Len(parts) = 1 THEN parts[1].s
    ELSE parts[1].s \o " " \o Join(Tail(parts))

\* faulty variant of the extractor: every part is followed by a space
_extract_text_from_doc_spaced(content) ==
    LET text_parts == extract(content)
    IN  IF \E i \in 1..Len(text_parts) : text_parts[i].t /= "str"
        THEN Raise("sequence item: expected str instance")
        ELSE Return_(JStr(Join(text_parts) \o (IF Len(text_parts) = 0 THEN "" ELSE " ")))

\* faulty variant of the count: every value of a mapping is visited
RECURSIVE extract_calls_greedy(_), extract_calls_values(_, _)
extract_calls_values(kv, i) ==
    IF i > Len(kv) THEN 0
    ELSE extract_calls_greedy(kv[i][2]) + extract_calls_values(kv, i + 1)
extract_calls_greedy(item) ==
    1 + (IF item.t = "obj" THEN extract_calls_values(item.kv, 1)
         ELSE IF item.t = "list"
         THEN extract_calls_values([i \in 1..Len(item.xs) |-> <<"", item.xs[i]>>], 1)
         ELSE 0)

\* the number of times extract is entered for `item`, the call for `item`
\* itself included, when no loop raises
RECURSIVE extract_calls(_), extract_calls_each(_, _)
extract_calls_each(xs, i) ==
    IF i > Len(xs) THEN 0
    ELSE extract_calls(xs[i]) + extract_calls_each(xs, i + 1)
extract_calls(item) ==
    1 + (IF item.t = "obj"
         THEN LET content == GetOr(item, "content", JNull)
              IN  IF ~Has(item, "content") THEN 0
                  ELSE CASE content.t = "list" -> extract_calls_each(content.xs, 1)
                         [] content.t = "obj" -> Len(content.kv)
                         [] content.t = "str" -> Len(content.s)
                         [] OTHER -> 0
         ELSE IF item.t = "list" THEN extract_calls_each(item.xs, 1)
         ELSE 0)

_extract_text_from_doc(content) ==
    LET text_parts == extract(content)
        raised == {i \in 1..Len(text_parts) : text_parts[i].t = "raise"}
    IN  IF raised /= {}
        THEN Raise(text_parts[CHOOSE i \in raised : \A j \in raised : i <= j].s)
        ELSE IF \E i \in 1..Len(text_parts) : text_parts[i].t /= "str"
        THEN Raise("sequence item: expected str instance")
        ELSE Return_(JStr(Join(text_parts)))

(***************************************************************************)
(* JiraClient.  A method is modelled by what it does up to its await: the  *)
(* request it issues and how it turns the response into its result         *)
(* ("json": return response.json(); "value": return the given object;      *)
(* the other tags name the method whose own code finishes the call).       *)
(***************************************************************************)
Await(request, returns, value) ==
    [kind |-> "await", request |-> request, returns |-> returns, value |-> value]

\* faulty variant of the wrapping: the document carries no version
Doc_unversioned(text) ==
    JObj(<< <<"type", JStr("doc")>>,
            <<"content", JList(<<
                JObj(<< <<"type", JStr("paragraph")>>,
                        <<"content", JList(<<
                            JObj(<< <<"type", JStr("text")>>,
                                    <<"text", text>> >>) >>)>> >>) >>)>> >>)

\* the single-paragraph document a free-text value is sent as
Doc(text) ==
    JObj(<< <<"type", JStr("doc")>>,
            <<"version", JNum(1)>>,
            <<"content", JList(<<
                JObj(<< <<"type", JStr("paragraph")>>,
                        <<"content", JList(<<
                            JObj(<< <<"type", JStr("text")>>,
                                    <<"text", text>> >>) >>)>> >>) >>)>> >>)

Jira_list_projects(self) ==
    Await(Request("GET", self.jira_url \o "/rest/api/3/project", Absent, Absent),
          "json", JNull)

Jira_get_project(self, project_key) ==
    Await(Request("GET", self.jira_url \o "/rest/api/3/project/" \o Str(project_key),
                  Absent, Absent),
          "json", JNull)

Jira_create_project(self, key, name, project_type_key, lead_account_id, description) ==
    LET d0 == JObj(<< <<"key", key>>, <<"name", name>>,
                      <<"projectTypeKey", project_type_key>> >>)
        d1 == PutIf(Truthy(lead_account_id), d0, "leadAccountId", lead_account_id)
        data == PutIf(Truthy(description), d1, "description", description)
    IN  Await(Request("POST", self.jira_url \o "/rest/api/3/project", Absent, data),
              "json", JNull)

\* faulty variant of search_issues: start_at is sent as startAt
Jira_search_issues_paged(self, jql, max_results, start_at, fields) ==
    LET d0 == JObj(<< <<"jql", jql>>, <<"maxResults", max_results>>,
                      <<"startAt", start_at>> >>)
        data == PutIf(Truthy(fields), d0, "fields", fields)
    IN  Await(Request("POST", self.jira_url \o "/rest/api/3/search/jql", Absent, data),
              "json", JNull)

Jira_search_issues(self, jql, max_results, start_at, fields) ==
    LET d0 == JObj(<< <<"jql", jql>>, <<"maxResults", max_results>> >>)
        data == PutIf(Truthy(fields), d0, "fields", fields)
    IN  Await(Request("POST", self.jira_url \o "/rest/api/3/search/jql", Absent, data),
              "json", JNull)

Jira_get_issue(self, issue_key) ==
    Await(Request("GET", self.jira_url \o "/rest/api/3/issue/" \o Str(issue_key),
                  Absent, Absent),
          "get_issue", JNull)

\* faulty variant of get_issue: the body comes back as it came
Jira_get_issue_result_plain(reply) ==
    IF reply.content = Invalid THEN Raise(JSONDecodeMessage)
    ELSE Return_(reply.content)

\* get_issue after its response: attach fields.description_text
Jira_get_issue_result(reply) ==
    IF reply.content = Invalid THEN Raise(JSONDecodeMessage)
    ELSE
    LET data == reply.content
        hasFields == PyIn("fields", data)
        fields == IF data.t = "obj" /\ hasFields = "yes" THEN At(data, "fields") ELSE JNull
        hasDescription == PyIn("description", fields)
    IN  IF hasFields = "error" THEN Raise("argument is not iterable")
        ELSE IF hasFields = "no" THEN Return_(data)
        ELSE IF data.t /= "obj" THEN Raise("indices must be integers")
        ELSE IF hasDescription = "error" THEN Raise("argument is not iterable")
        ELSE IF hasDescription = "no" THEN Return_(data)
        ELSE IF fields.t /= "obj" THEN Raise("indices must be integers")
        ELSE IF ~Truthy(At(fields, "description")) THEN Return_(data)
        ELSE LET description_text == _extract_text_from_doc(At(fields, "description"))
             IN  IF description_text.kind = "raise" THEN description_text
                 ELSE Return_(Put(data, "fields",
                                  Put(fields, "description_text", description_text.value)))

Jira_create_issue(self, project_key, summary, issue_type, description, priority, assignee_id, labels) ==
    LET f0 == JObj(<< <<"project", JObj(<< <<"key", project_key>> >>)>>,
                      <<"summary", summary>>,
                      <<"issuetype", JObj(<< <<"name", issue_type>> >>)>> >>)
        f1 == PutIf(Truthy(description), f0, "description", Doc(description))
        f2 == PutIf(Truthy(priority), f1, "priority", JObj(<< <<"name", priority>> >>))
        f3 == PutIf(Truthy(assignee_id), f2, "assignee", JObj(<< <<"id", assignee_id>> >>))
        fields == PutIf(Truthy(labels), f3, "labels", labels)
        data == JObj(<< <<"fields", fields>> >>)
    IN  Await(Request("POST", self.jira_url \o "/rest/api/3/issue", Absent, data),
              "json", JNull)

\* faulty variant of update_issue: every optional field is tested with
\* `if value:`
Jira_update_issue_truthy(self, issue_key, summary, description, priority, assignee_id, labels, story_points, sprint, acceptance_criteria, technical_requirements) ==
    LET f0 == JObj(<<>>)
        f1 == PutIf(Truthy(summary), f0, "summary", summary)
        f2 == PutIf(Truthy(description), f1, "description", Doc(description))
        f3 == PutIf(Truthy(priority), f2, "priority", JObj(<< <<"name", priority>> >>))
        f4 == PutIf(Truthy(assignee_id), f3, "assignee", JObj(<< <<"id", assignee_id>> >>))
        f5 == PutIf(Truthy(labels), f4, "labels", labels)
        f6 == PutIf(Truthy(story_points), f5, "customfield_10105", story_points)
        f7 == PutIf(Truthy(sprint), f6, "customfield_10106", sprint)
        f8 == PutIf(Truthy(acceptance_criteria), f7, "customfield_10103",
                    Doc(acceptance_criteria))
        fields == PutIf(Truthy(technical_requirements), f8, "customfield_10104",
                        Doc(technical_requirements))
        data == JObj(<< <<"fields", fields>> >>)
    IN  Await(Request("PUT", self.jira_url \o "/rest/api/3/issue/" \o Str(issue_key),
                      Absent, data),
              "value",
              JObj(<< <<"status", JStr("updated")>>, <<"issue_key", issue_key>> >>))

Jira_update_issue(self, issue_key, summary, description, priority, assignee_id, labels, story_points, sprint, acceptance_criteria, technical_requirements) ==
    LET f0 == JObj(<<>>)
        f1 == PutIf(Truthy(summary), f0, "summary", summary)
        f2 == PutIf(Truthy(description), f1, "description", Doc(description))
        f3 == PutIf(Truthy(priority), f2, "priority", JObj(<< <<"name", priority>> >>))
        f4 == PutIf(Truthy(assignee_id), f3, "assignee", JObj(<< <<"id", assignee_id>> >>))
        f5 == PutIf(labels /= JNull, f4, "labels", labels)
        f6 == PutIf(story_points /= JNull, f5, "customfield_10105", story_points)
        f7 == PutIf(sprint /= JNull, f6, "customfield_10106", sprint)
        f8 == PutIf(acceptance_criteria /= JNull, f7, "customfield_10103",
                    Doc(acceptance_criteria))
        fields == PutIf(technical_requirements /= JNull, f8, "customfield_10104",
                        Doc(technical_requirements))
        data == JObj(<< <<"fields", fields>> >>)
    IN  Await(Request("PUT", self.jira_url \o "/rest/api/3/issue/" \o Str(issue_key),
                      Absent, data),
              "value",
              JObj(<< <<"status", JStr("updated")>>, <<"issue_key", issue_key>> >>))

Jira_delete_issue(self, issue_key) ==
    Await(Request("DELETE", self.jira_url \o "/rest/api/3/issue/" \o Str(issue_key),
                  Absent, Absent),
          "value",
          JObj(<< <<"status", JStr("deleted")>>, <<"issue_key", issue_key>> >>))

\* faulty variant of assign_issue: the remote body is handed back
Jira_assign_issue_echo(self, issue_key, assignee_id) ==
    Await(Request("PUT",
                  self.jira_url \o "/rest/api/3/issue/" \o Str(issue_key) \o "/assignee",
                  Absent, JObj(<< <<"accountId", assignee_id>> >>)),
          "json", JNull)

Jira_assign_issue(self, issue_key, assignee_id) ==
    Await(Request("PUT",
                  self.jira_url \o "/rest/api/3/issue/" \o Str(issue_key) \o "/assignee",
                  Absent, JObj(<< <<"accountId", assignee_id>> >>)),
          "value",
          JObj(<< <<"status", JStr("assigned")>>, <<"issue_key", issue_key>>,
                  <<"assignee_id", assignee_id>> >>))

\* transition_issue from `data = {"transition": ...}` on: the POST
Jira_transition_issue_post(self, issue_key, transition_id) ==
    Await(Request("POST",
                  self.jira_url \o "/rest/api/3/issue/" \o Str(issue_key) \o "/transitions",
                  Absent,
                  JObj(<< <<"transition", JObj(<< <<"id", transition_id>> >>)>> >>)),
          "value",
          JObj(<< <<"status", JStr("transitioned")>>, <<"issue_key", issue_key>> >>))

\* faulty variant of transition_issue: the name is looked up even when an id
\* is given
Jira_transition_issue_eager(self, issue_key, transition_id, transition_name) ==
    IF Truthy(transition_name)
    THEN Await(Request("GET",
                       self.jira_url \o "/rest/api/3/issue/" \o Str(issue_key)
                           \o "/transitions",
                       Absent, Absent),
               "transitions", JNull)
    ELSE Jira_transition_issue_post(self, issue_key, transition_id)

\* faulty variant of transition_issue: by name, the POST is made at once
\* with the id as it was given
Jira_transition_issue_unordered(self, issue_key, transition_id, transition_name) ==
    Jira_transition_issue_post(self, issue_key, transition_id)

\* faulty variant of transition_issue: an id and a name given together are
\* refused
Jira_transition_issue_exclusive(self, issue_key, transition_id, transition_name) ==
    IF Truthy(transition_id) /\ Truthy(transition_name)
    THEN Raise("transition_id and transition_name are mutually exclusive")
    ELSE IF Truthy(transition_name)
    THEN Await(Request("GET",
                       self.jira_url \o "/rest/api/3/issue/" \o Str(issue_key)
                           \o "/transitions",
                       Absent, Absent),
               "transitions", JNull)
    ELSE Jira_transition_issue_post(self, issue_key, transition_id)

Jira_transition_issue(self, issue_key, transition_id, transition_name) ==
    IF Truthy(transition_name) /\ ~Truthy(transition_id)
    THEN Await(Request("GET",
                       self.jira_url \o "/rest/api/3/issue/" \o Str(issue_key)
                           \o "/transitions",
                       Absent, Absent),
               "transitions", JNull)
    ELSE Jira_transition_issue_post(self, issue_key, transition_id)

\* faulty variant of the loop: names are compared case-sensitively
RECURSIVE FindTransition_cased(_, _, _, _)
FindTransition_cased(transitions, i, transition_id, transition_name) ==
    IF i > Len(transitions) THEN Return_(transition_id)
    ELSE LET transition == transitions[i]
         IN  IF transition.t /= "obj" THEN Raise("indices must be integers")
             ELSE IF ~Has(transition, "name") THEN Raise("'name'")
             ELSE IF At(transition, "name").t /= "str"
             THEN Raise("object has no attribute 'lower'")
             ELSE IF At(transition, "name").s = transition_name.s
             THEN (IF Has(transition, "id") THEN Return_(At(transition, "id"))
                   ELSE Raise("'id'"))
             ELSE FindTransition_cased(transitions, i + 1, transition_id,
                                       transition_name)

\* the `for transition in transitions` loop from element i on: the
\* transition_id it leaves (the given one when nothing matches), or a raise
RECURSIVE FindTransition(_, _, _, _)
FindTransition(transitions, i, transition_id, transition_name) ==
    IF i > Len(transitions) THEN Return_(transition_id)
    ELSE LET transition == transitions[i]
         IN  IF transition.t /= "obj" THEN Raise("indices must be integers")
             ELSE IF ~Has(transition, "name") THEN Raise("'name'")
             ELSE IF At(transition, "name").t /= "str"
             THEN Raise("object has no attribute 'lower'")
             ELSE IF Lower(At(transition, "name").s) = Lower(transition_name.s)
             THEN (IF Has(transition, "id") THEN Return_(At(transition, "id"))
                   ELSE Raise("'id'"))
             ELSE FindTransition(transitions, i + 1, transition_id, transition_name)

\* faulty variant of the lookup: without a match the POST is made anyway
Jira_transition_issue_lookup_unchecked(self, issue_key, transition_id, transition_name, reply) ==
    LET body == reply.content
        transitions == At(body, "transitions")
        found == FindTransition(transitions.xs, 1, transition_id, transition_name)
    IN  IF body = Invalid THEN Raise(JSONDecodeMessage)
        ELSE IF body.t /= "obj" THEN Raise("indices must be integers")
        ELSE IF ~Has(body, "transitions") THEN Raise("'transitions'")
        ELSE IF transitions.t /= "list" THEN Raise("object is not iterable")
        ELSE IF found.kind = "raise" THEN found
        ELSE Jira_transition_issue_post(self, issue_key, found.value)

\* transition_issue after the response to its GET of the transitions
Jira_transition_issue_lookup(self, issue_key, transition_id, transition_name, reply) ==
    LET body == reply.content
        transitions == At(body, "transitions")
        found == FindTransition(transitions.xs, 1, transition_id, transition_name)
    IN  IF body = Invalid THEN Raise(JSONDecodeMessage)
        ELSE IF body.t /= "obj" THEN Raise("indices must be integers")
        ELSE IF ~Has(body, "transitions") THEN Raise("'transitions'")
        ELSE IF transitions.t \in {"null", "num", "bool"}
        THEN Raise("object is not iterable")
        ELSE IF transitions.t /= "list" /\ Truthy(transitions)
        THEN Raise("indices must be integers")
        ELSE LET left == IF transitions.t = "list" THEN found
                         ELSE Return_(transition_id)
             IN  IF left.kind = "raise" THEN left
                 ELSE IF ~Truthy(left.value)
                 THEN Raise("Transition '" \o Str(transition_name)
                            \o "' not found for issue " \o Str(issue_key))
                 ELSE Jira_transition_issue_post(self, issue_key, left.value)

Jira_add_comment(self, issue_key, comment) ==
    Await(Request("POST",
                  self.jira_url \o "/rest/api/3/issue/" \o Str(issue_key) \o "/comment",
                  Absent, JObj(<< <<"body", Doc(comment)>> >>)),
          "json", JNull)

Jira_delete_comment(self, issue_key, comment_id) ==
    Await(Request("DELETE",
                  self.jira_url \o "/rest/api/3/issue/" \o Str(issue_key) \o "/comment/"
                      \o Str(comment_id),
                  Absent, Absent),
          "value",
          JObj(<< <<"status", JStr("deleted")>>, <<"issue_key", issue_key>>,
                  <<"comment_id", comment_id>> >>))

Jira_list_sprints(self, board_id) ==
    Await(Request("GET",
                  self.jira_url \o "/rest/agile/1.0/board/" \o Str(board_id) \o "/sprint",
                  Absent, Absent),
          "json", JNull)

Jira_get_sprint(self, sprint_id) ==
    Await(Request("GET", self.jira_url \o "/rest/agile/1.0/sprint/" \o Str(sprint_id),
                  Absent, Absent),
          "json", JNull)

Jira_create_sprint(self, board_id, name, start_date, end_date, goal) ==
    LET d0 == JObj(<< <<"name", name>>, <<"originBoardId", board_id>> >>)
        d1 == PutIf(Truthy(start_date), d0, "startDate", start_date)
        d2 == PutIf(Truthy(end_date), d1, "endDate", end_date)
        data == PutIf(Truthy(goal), d2, "goal", goal)
    IN  Await(Request("POST", self.jira_url \o "/rest/agile/1.0/sprint", Absent, data),
              "json", JNull)

\* len(x) of a list
PyLen(x) == IF x.t = "list" THEN Len(x.xs) ELSE IF x.t = "obj" THEN Len(x.kv) ELSE Len(x.s)

Jira_move_issues_to_sprint(self, sprint_id, issue_keys) ==
    Await(Request("POST",
                  self.jira_url \o "/rest/agile/1.0/sprint/" \o Str(sprint_id) \o "/issue",
                  Absent, JObj(<< <<"issues", issue_keys>> >>)),
          "value",
          JObj(<< <<"status", JStr("moved")>>, <<"sprint_id", sprint_id>>,
                  <<"issue_count", JNum(PyLen(issue_keys))>> >>))

Jira_list_boards(self) ==
    Await(Request("GET", self.jira_url \o "/rest/agile/1.0/board", Absent, Absent),
          "json", JNull)

Jira_get_board(self, board_id) ==
    Await(Request("GET", self.jira_url \o "/rest/agile/1.0/board/" \o Str(board_id),
                  Absent, Absent),
          "json", JNull)

Jira_search_users(self, query) ==
    Await(Request("GET", self.jira_url \o "/rest/api/3/user/search",
                  JObj(<< <<"query", query>> >>), Absent),
          "json", JNull)

Jira_get_current_user(self) ==
    Await(Request("GET", self.jira_url \o "/rest/api/3/myself", Absent, Absent),
          "json", JNull)

Jira_get_custom_fields(self) ==
    Await(Request("GET", self.jira_url \o "/rest/api/3/field", Absent, Absent),
          "get_custom_fields", JNull)

\* the custom_fields list get_custom_fields builds from fields[i..]
RECURSIVE CustomFields(_, _)
CustomFields(fields, i) ==
    IF i > Len(fields) THEN <<>>
    ELSE LET field == fields[i]
             entry == JObj(<<
                 <<"id", GetOr(field, "id", JNull)>>,
                 <<"name", GetOr(field, "name", JNull)>>,
                 <<"description", GetOr(field, "description", JStr(""))>>,
                 <<"type", GetOr(GetOr(field, "schema", JObj(<<>>)), "type",
                                 JStr("unknown"))>>,
                 <<"custom", GetOr(field, "custom", JBool(FALSE))>> >>)
         IN  (IF Truthy(GetOr(field, "custom", JBool(FALSE))) THEN <<entry>> ELSE <<>>)
             \o CustomFields(fields, i + 1)

\* get_custom_fields after its response
Jira_get_custom_fields_result(reply) ==
    LET fields == reply.content
        custom_fields == CustomFields(fields.xs, 1)
    IN  IF fields = Invalid THEN Raise(JSONDecodeMessage)
        ELSE IF fields.t \in {"null", "num", "bool"} THEN Raise("object is not iterable")
        ELSE IF fields.t /= "list" /\ Truthy(fields)
        THEN Raise("'str' object has no attribute 'get'")
        ELSE IF fields.t = "list" /\ \E i \in 1..Len(fields.xs) : fields.xs[i].t /= "obj"
        THEN Raise("object has no attribute 'get'")
        ELSE LET custom == IF fields.t = "list" THEN custom_fields ELSE <<>>
             IN  Return_(JObj(<<
                     <<"total_fields", JNum(PyLen(fields))>>,
                     <<"custom_fields_count", JNum(Len(custom))>>,
                     <<"custom_fields", JList(custom)>>,
                     <<"all_fields", fields>> >>))

(***************************************************************************)
(* BitbucketClient.                                                        *)
(***************************************************************************)
Bitbucket_get_repository(self, workspace, repo_slug) ==
    Await(Request("GET",
                  self.BASE_URL \o "/repositories/" \o Str(workspace) \o "/" \o Str(repo_slug),
                  Absent, Absent),
          "json", JNull)

Bitbucket_list_repositories(self, workspace) ==
    Await(Request("GET",
                  self.BASE_URL \o "/repositories/" \o Str(workspace),
                  Absent, Absent),
          "json", JNull)

Bitbucket_create_repository(self, workspace, repo_slug, is_private, description, project_key) ==
    LET d0 == JObj(<< <<"scm", JStr("git")>>, <<"is_private", is_private>> >>)
        d1 == PutIf(Truthy(description), d0, "description", description)
        data == PutIf(Truthy(project_key), d1, "project",
                      JObj(<< <<"key", project_key>> >>))
    IN  Await(Request("POST",
                      self.BASE_URL \o "/repositories/" \o Str(workspace) \o "/" \o Str(repo_slug),
                      Absent, data),
              "json", JNull)

Bitbucket_search_code(self, workspace, repo_slug, search_query) ==
    Await(Request("GET",
                  self.BASE_URL \o "/repositories/" \o Str(workspace) \o "/" \o Str(repo_slug) \o "/search/code",
                  JObj(<< <<"search_query", search_query>> >>), Absent),
          "json", JNull)

Bitbucket_list_pull_requests(self, workspace, repo_slug, state) ==
    LET url == self.BASE_URL \o "/repositories/" \o Str(workspace) \o "/" \o Str(repo_slug)
                   \o "/pullrequests"
        params == IF Truthy(state) THEN JObj(<< <<"state", state>> >>) ELSE JObj(<<>>)
    IN  Await(Request("GET", url, params, Absent), "json", JNull)

Bitbucket_get_pull_request(self, workspace, repo_slug, pr_id) ==
    Await(Request("GET",
                  self.BASE_URL \o "/repositories/" \o Str(workspace) \o "/" \o Str(repo_slug)
                      \o "/pullrequests/" \o Str(pr_id),
                  Absent, Absent),
          "json", JNull)

Bitbucket_create_pull_request(self, workspace, repo_slug, title, source_branch, destination_branch, description, close_source_branch) ==
    LET d0 == JObj(<<
            <<"title", title>>,
            <<"source", JObj(<< <<"branch", JObj(<< <<"name", source_branch>> >>)>> >>)>>,
            <<"destination",
              JObj(<< <<"branch", JObj(<< <<"name", destination_branch>> >>)>> >>)>>,
            <<"close_source_branch", close_source_branch>> >>)
        data == PutIf(Truthy(description), d0, "description", description)
    IN  Await(Request("POST",
                      self.BASE_URL \o "/repositories/" \o Str(workspace) \o "/" \o Str(repo_slug)
                          \o "/pullrequests",
                      Absent, data),
              "json", JNull)

Bitbucket_update_pull_request(self, workspace, repo_slug, pr_id, title, description) ==
    LET d0 == JObj(<<>>)
        d1 == PutIf(Truthy(title), d0, "title", title)
        data == PutIf(Truthy(description), d1, "description", description)
    IN  Await(Request("PUT",
                      self.BASE_URL \o "/repositories/" \o Str(workspace) \o "/" \o Str(repo_slug)
                      \o "/pullrequests/" \o Str(pr_id),
                      Absent, data),
              "json", JNull)

Bitbucket_merge_pull_request(self, workspace, repo_slug, pr_id, merge_strategy, message) ==
    LET d0 == JObj(<< <<"type", merge_strategy>> >>)
        data == PutIf(Truthy(message), d0, "message", message)
    IN  Await(Request("POST",
                      self.BASE_URL \o "/repositories/" \o Str(workspace) \o "/" \o Str(repo_slug)
                      \o "/pullrequests/" \o Str(pr_id) \o "/merge",
                      Absent, data),
              "json", JNull)

Bitbucket_decline_pull_request(self, workspace, repo_slug, pr_id) ==
    Await(Request("POST",
                  self.BASE_URL \o "/repositories/" \o Str(workspace) \o "/" \o Str(repo_slug)
                      \o "/pullrequests/" \o Str(pr_id) \o "/decline",
                  Absent, Absent),
          "json", JNull)

Bitbucket_approve_pull_request(self, workspace, repo_slug, pr_id) ==
    Await(Request("POST",
                  self.BASE_URL \o "/repositories/" \o Str(workspace) \o "/" \o Str(repo_slug)
                      \o "/pullrequests/" \o Str(pr_id) \o "/approve",
                  Absent, Absent),
          "json", JNull)

Bitbucket_unapprove_pull_request(self, workspace, repo_slug, pr_id) ==
    Await(Request("DELETE",
                  self.BASE_URL \o "/repositories/" \o Str(workspace) \o "/" \o Str(repo_slug)
                      \o "/pullrequests/" \o Str(pr_id) \o "/approve",
                  Absent, Absent),
          "value", JObj(<< <<"status", JStr("approval removed")>> >>))

Bitbucket_list_pr_comments(self, workspace, repo_slug, pr_id) ==
    Await(Request("GET",
                  self.BASE_URL \o "/repositories/" \o Str(workspace) \o "/" \o Str(repo_slug)
                      \o "/pullrequests/" \o Str(pr_id) \o "/comments",
                  Absent, Absent),
          "json", JNull)

Bitbucket_add_pr_comment(self, workspace, repo_slug, pr_id, content) ==
    Await(Request("POST",
                  self.BASE_URL \o "/repositories/" \o Str(workspace) \o "/" \o Str(repo_slug)
                      \o "/pullrequests/" \o Str(pr_id) \o "/comments",
                  Absent, JObj(<< <<"content", JObj(<< <<"raw", content>> >>)>> >>)),
          "json", JNull)

Bitbucket_list_branches(self, workspace, repo_slug) ==
    Await(Request("GET",
                  self.BASE_URL \o "/repositories/" \o Str(workspace) \o "/" \o Str(repo_slug)
                      \o "/refs/branches",
                  Absent, Absent),
          "json", JNull)

Bitbucket_get_branch(self, workspace, repo_slug, branch_name) ==
    Await(Request("GET",
                  self.BASE_URL \o "/repositories/" \o Str(workspace) \o "/" \o Str(repo_slug)
                      \o "/refs/branches" \o "/" \o Str(branch_name),
                  Absent, Absent),
          "json", JNull)

Bitbucket_create_branch(self, workspace, repo_slug, branch_name, target) ==
    Await(Request("POST",
                  self.BASE_URL \o "/repositories/" \o Str(workspace) \o "/" \o Str(repo_slug)
                      \o "/refs/branches",
                  Absent, JObj(<< <<"name", branch_name>>,
                          <<"target", JObj(<< <<"hash", target>> >>)>> >>)),
          "json", JNull)

\* faulty variant of delete_branch: the remote body is handed back
Bitbucket_delete_branch_echo(self, workspace, repo_slug, branch_name) ==
    Await(Request("DELETE",
                  self.BASE_URL \o "/repositories/" \o Str(workspace) \o "/" \o Str(repo_slug)
                      \o "/refs/branches/" \o Str(branch_name),
                  Absent, Absent),
          "json", JNull)

Bitbucket_delete_branch(self, workspace, repo_slug, branch_name) ==
    Await(Request("DELETE",
                  self.BASE_URL \o "/repositories/" \o Str(workspace) \o "/" \o Str(repo_slug)
                      \o "/refs/branches" \o "/" \o Str(branch_name),
                  Absent, Absent),
          "value", JObj(<< <<"status", JStr("branch deleted")>> >>))

Bitbucket_list_commits(self, workspace, repo_slug, branch) ==
    LET url0 == self.BASE_URL \o "/repositories/" \o Str(workspace) \o "/" \o Str(repo_slug)
                    \o "/commits"
        url == IF Truthy(branch) THEN url0 \o "/" \o Str(branch) ELSE url0
    IN  Await(Request("GET", url, Absent, Absent), "json", JNull)

Bitbucket_get_commit(self, workspace, repo_slug, commit_hash) ==
    Await(Request("GET",
                  self.BASE_URL \o "/repositories/" \o Str(workspace) \o "/" \o Str(repo_slug)
                      \o "/commit/" \o Str(commit_hash),
                  Absent, Absent),
          "json", JNull)

Bitbucket_get_commit_diff(self, workspace, repo_slug, commit_hash) ==
    Await(Request("GET",
                  self.BASE_URL \o "/repositories/" \o Str(workspace) \o "/" \o Str(repo_slug)
                      \o "/diff/" \o Str(commit_hash),
                  Absent, Absent),
          "json", JNull)

Bitbucket_list_issues(self, workspace, repo_slug, state) ==
    LET url == self.BASE_URL \o "/repositories/" \o Str(workspace) \o "/" \o Str(repo_slug)
                   \o "/issues"
        params == IF Truthy(state) THEN JObj(<< <<"state", state>> >>) ELSE JObj(<<>>)
    IN  Await(Request("GET", url, params, Absent), "json", JNull)

Bitbucket_get_issue(self, workspace, repo_slug, issue_id) ==
    Await(Request("GET",
                  self.BASE_URL \o "/repositories/" \o Str(workspace) \o "/" \o Str(repo_slug)
                      \o "/issues/" \o Str(issue_id),
                  Absent, Absent),
          "json", JNull)

Bitbucket_create_issue(self, workspace, repo_slug, title, description, kind, priority) ==
    LET d0 == JObj(<< <<"title", title>>, <<"kind", kind>>, <<"priority", priority>> >>)
        data == PutIf(Truthy(description), d0, "content",
                      JObj(<< <<"raw", description>> >>))
    IN  Await(Request("POST",
                      self.BASE_URL \o "/repositories/" \o Str(workspace) \o "/" \o Str(repo_slug)
                          \o "/issues",
                      Absent, data),
              "json", JNull)

Bitbucket_update_issue(self, workspace, repo_slug, issue_id, title, description, state, kind, priority) ==
    LET d0 == JObj(<<>>)
        d1 == PutIf(Truthy(title), d0, "title", title)
        d2 == PutIf(Truthy(description), d1, "content", JObj(<< <<"raw", description>> >>))
        d3 == PutIf(Truthy(state), d2, "state", state)
        d4 == PutIf(Truthy(kind), d3, "kind", kind)
        data == PutIf(Truthy(priority), d4, "priority", priority)
    IN  Await(Request("PUT",
                      self.BASE_URL \o "/repositories/" \o Str(workspace) \o "/" \o Str(repo_slug)
                          \o "/issues/" \o Str(issue_id),
                      Absent, data),
              "json", JNull)

Bitbucket_list_workspaces(self) ==
    Await(Request("GET",
                  self.BASE_URL \o "/workspaces",
                  Absent, Absent),
          "json", JNull)

Bitbucket_get_workspace(self, workspace) ==
    Await(Request("GET",
                  self.BASE_URL \o "/workspaces/" \o Str(workspace),
                  Absent, Absent),
          "json", JNull)

(***************************************************************************)
(* The tool registries (list_tools) and the dispatchers (call_tool).       *)
(***************************************************************************)
\* a Tool of the catalog: properties are <<key, type>> in the schema's
\* order, required the schema's "required", defaults <<key, default>>
Tool(name, properties, required, defaults) ==
    [name |-> name, properties |-> properties, required |-> required,
     defaults |-> defaults]

\* faulty variant of the fallback: `arguments.get(key) or default`, which
\* replaces a supplied falsy value by the default
Get_or(arguments, key, default) ==
    IF key \in DOMAIN arguments /\ Truthy(arguments[key]) THEN arguments[key]
    ELSE default

\* arguments.get(key, default)
Get(arguments, key, default) ==
    IF key \in DOMAIN arguments THEN arguments[key] ELSE default

\* the catalog list_tools returns, in its order
Jira_list_tools ==
    <<
    Tool("list_projects",
         <<>>,
         <<>>,
         <<>>),
    Tool("get_project",
         << <<"project_key", "string">> >>,
         << "project_key" >>,
         <<>>),
    Tool("create_project",
         << <<"key", "string">>,
            <<"name", "string">>,
            <<"project_type_key", "string">>,
            <<"lead_account_id", "string">>,
            <<"description", "string">> >>,
         << "key", "name" >>,
         << <<"project_type_key", JStr("software")>> >>),
    Tool("search_issues",
         << <<"jql", "string">>,
            <<"max_results", "integer">>,
            <<"start_at", "integer">> >>,
         << "jql" >>,
         << <<"max_results", JNum(50)>>, <<"start_at", JNum(0)>> >>),
    Tool("get_issue",
         << <<"issue_key", "string">> >>,
         << "issue_key" >>,
         <<>>),
    Tool("create_issue",
         << <<"project_key", "string">>,
            <<"summary", "string">>,
            <<"issue_type", "string">>,
            <<"description", "string">>,
            <<"priority", "string">>,
            <<"assignee_id", "string">>,
            <<"labels", "array">> >>,
         << "project_key", "summary", "issue_type" >>,
         <<>>),
    Tool("update_issue",
         << <<"issue_key", "string">>,
            <<"summary", "string">>,
            <<"description", "string">>,
            <<"priority", "string">>,
            <<"assignee_id", "string">>,
            <<"labels", "array">>,
            <<"story_points", "number">>,
            <<"sprint", "array">>,
            <<"acceptance_criteria", "string">>,
            <<"technical_requirements", "string">> >>,
         << "issue_key" >>,
         <<>>),
    Tool("delete_issue",
         << <<"issue_key", "string">> >>,
         << "issue_key" >>,
         <<>>),
    Tool("assign_issue",
         << <<"issue_key", "string">>, <<"assignee_id", "string">> >>,
         << "issue_key", "assignee_id" >>,
         <<>>),
    Tool("transition_issue",
         << <<"issue_key", "string">>,
            <<"transition_id", "string">>,
            <<"transition_name", "string">> >>,
         << "issue_key" >>,
         <<>>),
    Tool("add_comment",
         << <<"issue_key", "string">>, <<"comment", "string">> >>,
         << "issue_key", "comment" >>,
         <<>>),
    Tool("delete_comment",
         << <<"issue_key", "string">>, <<"comment_id", "string">> >>,
         << "issue_key", "comment_id" >>,
         <<>>),
    Tool("list_sprints",
         << <<"board_id", "integer">> >>,
         << "board_id" >>,
         <<>>),
    Tool("get_sprint",
         << <<"sprint_id", "integer">> >>,
         << "sprint_id" >>,
         <<>>),
    Tool("create_sprint",
         << <<"board_id", "integer">>,
            <<"name", "string">>,
            <<"start_date", "string">>,
            <<"end_date", "string">>,
            <<"goal", "string">> >>,
         << "board_id", "name" >>,
         <<>>),
    Tool("move_issues_to_sprint",
         << <<"sprint_id", "integer">>, <<"issue_keys", "array">> >>,
         << "sprint_id", "issue_keys" >>,
         <<>>),
    Tool("list_boards",
         <<>>,
         <<>>,
         <<>>),
    Tool("get_board",
         << <<"board_id", "integer">> >>,
         << "board_id" >>,
         <<>>),
    Tool("search_users",
         << <<"query", "string">> >>,
         << "query" >>,
         <<>>),
    Tool("get_current_user",
         <<>>,
         <<>>,
         <<>>),
    Tool("get_custom_fields",
         <<>>,
         <<>>,
         <<>>)
    >>

\* the names the if/elif chain of call_tool compares `name` with, in order
\* faulty variant of the chain: the branch of the last listed tool is gone
Jira_call_tool_names_short ==
    [i \in 1..(Len(Jira_list_tools) - 1) |-> Jira_list_tools[i].name]

Jira_call_tool_names ==
    << "list_projects",
       "get_project",
       "create_project",
       "search_issues",
       "get_issue",
       "create_issue",
       "update_issue",
       "delete_issue",
       "assign_issue",
       "transition_issue",
       "add_comment",
       "delete_comment",
       "list_sprints",
       "get_sprint",
       "create_sprint",
       "move_issues_to_sprint",
       "list_boards",
       "get_board",
       "search_users",
       "get_current_user",
       "get_custom_fields" >>

\* faulty variant of the reads: transition_issue reads transition_id as
\* arguments["transition_id"]
Jira_call_tool_indexed_eager(name) ==
    IF name = "transition_issue" THEN << "issue_key", "transition_id" >>
    ELSE Jira_list_tools[CHOOSE i \in 1..Len(Jira_list_tools) :
                            Jira_list_tools[i].name = name].required

\* the keys a branch reads as arguments[key], in evaluation order
Jira_call_tool_indexed(name) ==
    CASE name = "list_projects" -> <<>>
      [] name = "get_project" -> << "project_key" >>
      [] name = "create_project" -> << "key", "name" >>
      [] name = "search_issues" -> << "jql" >>
      [] name = "get_issue" -> << "issue_key" >>
      [] name = "create_issue" -> << "project_key", "summary", "issue_type" >>
      [] name = "update_issue" -> << "issue_key" >>
      [] name = "delete_issue" -> << "issue_key" >>
      [] name = "assign_issue" -> << "issue_key", "assignee_id" >>
      [] name = "transition_issue" -> << "issue_key" >>
      [] name = "add_comment" -> << "issue_key", "comment" >>
      [] name = "delete_comment" -> << "issue_key", "comment_id" >>
      [] name = "list_sprints" -> << "board_id" >>
      [] name = "get_sprint" -> << "sprint_id" >>
      [] name = "create_sprint" -> << "board_id", "name" >>
      [] name = "move_issues_to_sprint" -> << "sprint_id", "issue_keys" >>
      [] name = "list_boards" -> <<>>
      [] name = "get_board" -> << "board_id" >>
      [] name = "search_users" -> << "query" >>
      [] name = "get_current_user" -> <<>>
      [] name = "get_custom_fields" -> <<>>

\* the client call a branch makes, once every arguments[key] it reads is there
Jira_call_tool_invoke(self, name, arguments) ==
    CASE name = "list_projects" ->
            Jira_list_projects(
                self)
      [] name = "get_project" ->
            Jira_get_project(
                self,
                arguments["project_key"])
      [] name = "create_project" ->
            Jira_create_project(
                self,
                arguments["key"],
                arguments["name"],
                Get(arguments, "project_type_key", JStr("software")),
                Get(arguments, "lead_account_id", JNull),
                Get(arguments, "description", JNull))
      [] name = "search_issues" ->
            Jira_search_issues(
                self,
                arguments["jql"],
                Get(arguments, "max_results", JNum(50)),
                Get(arguments, "start_at", JNum(0)),
                JNull)
      [] name = "get_issue" ->
            Jira_get_issue(
                self,
                arguments["issue_key"])
      [] name = "create_issue" ->
            Jira_create_issue(
                self,
                arguments["project_key"],
                arguments["summary"],
                arguments["issue_type"],
                Get(arguments, "description", JNull),
                Get(arguments, "priority", JNull),
                Get(arguments, "assignee_id", JNull),
                Get(arguments, "labels", JNull))
      [] name = "update_issue" ->
            Jira_update_issue(
                self,
                arguments["issue_key"],
                Get(arguments, "summary", JNull),
                Get(arguments, "description", JNull),
                Get(arguments, "priority", JNull),
                Get(arguments, "assignee_id", JNull),
                Get(arguments, "labels", JNull),
                Get(arguments, "story_points", JNull),
                Get(arguments, "sprint", JNull),
                Get(arguments, "acceptance_criteria", JNull),
                Get(arguments, "technical_requirements", JNull))
      [] name = "delete_issue" ->
            Jira_delete_issue(
                self,
                arguments["issue_key"])
      [] name = "assign_issue" ->
            Jira_assign_issue(
                self,
                arguments["issue_key"],
                arguments["assignee_id"])
      [] name = "transition_issue" ->
            Jira_transition_issue(
                self,
                arguments["issue_key"],
                Get(arguments, "transition_id", JNull),
                Get(arguments, "transition_name", JNull))
      [] name = "add_comment" ->
            Jira_add_comment(
                self,
                arguments["issue_key"],
                arguments["comment"])
      [] name = "delete_comment" ->
            Jira_delete_comment(
                self,
                arguments["issue_key"],
                arguments["comment_id"])
      [] name = "list_sprints" ->
            Jira_list_sprints(
                self,
                arguments["board_id"])
      [] name = "get_sprint" ->
            Jira_get_sprint(
                self,
                arguments["sprint_id"])
      [] name = "create_sprint" ->
            Jira_create_sprint(
                self,
                arguments["board_id"],
                arguments["name"],
                Get(arguments, "start_date", JNull),
                Get(arguments, "end_date", JNull),
                Get(arguments, "goal", JNull))
      [] name = "move_issues_to_sprint" ->
            Jira_move_issues_to_sprint(
                self,
                arguments["sprint_id"],
                arguments["issue_keys"])
      [] name = "list_boards" ->
            Jira_list_boards(
                self)
      [] name = "get_board" ->
            Jira_get_board(
                self,
                arguments["board_id"])
      [] name = "search_users" ->
            Jira_search_users(
                self,
                arguments["query"])
      [] name = "get_current_user" ->
            Jira_get_current_user(
                self)
      [] name = "get_custom_fields" ->
            Jira_get_custom_fields(
                self)

\* the catalog list_tools returns, in its order
Bitbucket_list_tools ==
    <<
    Tool("get_repository",
         << <<"workspace", "string">>, <<"repo_slug", "string">> >>,
         << "workspace", "repo_slug" >>,
         <<>>),
    Tool("list_repositories",
         << <<"workspace", "string">> >>,
         << "workspace" >>,
         <<>>),
    Tool("create_repository",
         << <<"workspace", "string">>,
            <<"repo_slug", "string">>,
            <<"is_private", "boolean">>,
            <<"description", "string">>,
            <<"project_key", "string">> >>,
         << "workspace", "repo_slug" >>,
         << <<"is_private", JBool(TRUE)>> >>),
    Tool("search_code",
         << <<"workspace", "string">>,
            <<"repo_slug", "string">>,
            <<"search_query", "string">> >>,
         << "workspace", "repo_slug", "search_query" >>,
         <<>>),
    Tool("list_pull_requests",
         << <<"workspace", "string">>,
            <<"repo_slug", "string">>,
            <<"state", "string">> >>,
         << "workspace", "repo_slug" >>,
         <<>>),
    Tool("get_pull_request",
         << <<"workspace", "string">>,
            <<"repo_slug", "string">>,
            <<"pr_id", "integer">> >>,
         << "workspace", "repo_slug", "pr_id" >>,
         <<>>),
    Tool("create_pull_request",
         << <<"workspace", "string">>,
            <<"repo_slug", "string">>,
            <<"title", "string">>,
            <<"source_branch", "string">>,
            <<"destination_branch", "string">>,
            <<"description", "string">>,
            <<"close_source_branch", "boolean">> >>,
         << "workspace",
            "repo_slug",
            "title",
            "source_branch",
            "destination_branch" >>,
         << <<"close_source_branch", JBool(FALSE)>> >>),
    Tool("update_pull_request",
         << <<"workspace", "string">>,
            <<"repo_slug", "string">>,
            <<"pr_id", "integer">>,
            <<"title", "string">>,
            <<"description", "string">> >>,
         << "workspace", "repo_slug", "pr_id" >>,
         <<>>),
    Tool("merge_pull_request",
         << <<"workspace", "string">>,
            <<"repo_slug", "string">>,
            <<"pr_id", "integer">>,
            <<"merge_strategy", "string">>,
            <<"message", "string">> >>,
         << "workspace", "repo_slug", "pr_id" >>,
         << <<"merge_strategy", JStr("merge_commit")>> >>),
    Tool("decline_pull_request",
         << <<"workspace", "string">>,
            <<"repo_slug", "string">>,
            <<"pr_id", "integer">> >>,
         << "workspace", "repo_slug", "pr_id" >>,
         <<>>),
    Tool("approve_pull_request",
         << <<"workspace", "string">>,
            <<"repo_slug", "string">>,
            <<"pr_id", "integer">> >>,
         << "workspace", "repo_slug", "pr_id" >>,
         <<>>),
    Tool("unapprove_pull_request",
         << <<"workspace", "string">>,
            <<"repo_slug", "string">>,
            <<"pr_id", "integer">> >>,
         << "workspace", "repo_slug", "pr_id" >>,
         <<>>),
    Tool("list_pr_comments",
         << <<"workspace", "string">>,
            <<"repo_slug", "string">>,
            <<"pr_id", "integer">> >>,
         << "workspace", "repo_slug", "pr_id" >>,
         <<>>),
    Tool("add_pr_comment",
         << <<"workspace", "string">>,
            <<"repo_slug", "string">>,
            <<"pr_id", "integer">>,
            <<"content", "string">> >>,
         << "workspace", "repo_slug", "pr_id", "content" >>,
         <<>>),
    Tool("list_branches",
         << <<"workspace", "string">>, <<"repo_slug", "string">> >>,
         << "workspace", "repo_slug" >>,
         <<>>),
    Tool("get_branch",
         << <<"workspace", "string">>,
            <<"repo_slug", "string">>,
            <<"branch_name", "string">> >>,
         << "workspace", "repo_slug", "branch_name" >>,
         <<>>),
    Tool("create_branch",
         << <<"workspace", "string">>,
            <<"repo_slug", "string">>,
            <<"branch_name", "string">>,
            <<"target", "string">> >>,
         << "workspace", "repo_slug", "branch_name", "target" >>,
         <<>>),
    Tool("delete_branch",
         << <<"workspace", "string">>,
            <<"repo_slug", "string">>,
            <<"branch_name", "string">> >>,
         << "workspace", "repo_slug", "branch_name" >>,
         <<>>),
    Tool("list_commits",
         << <<"workspace", "string">>,
            <<"repo_slug", "string">>,
            <<"branch", "string">> >>,
         << "workspace", "repo_slug" >>,
         <<>>),
    Tool("get_commit",
         << <<"workspace", "string">>,
            <<"repo_slug", "string">>,
            <<"commit_hash", "string">> >>,
         << "workspace", "repo_slug", "commit_hash" >>,
         <<>>),
    Tool("get_commit_diff",
         << <<"workspace", "string">>,
            <<"repo_slug", "string">>,
            <<"commit_hash", "string">> >>,
         << "workspace", "repo_slug", "commit_hash" >>,
         <<>>),
    Tool("list_issues",
         << <<"workspace", "string">>,
            <<"repo_slug", "string">>,
            <<"state", "string">> >>,
         << "workspace", "repo_slug" >>,
         <<>>),
    Tool("get_issue",
         << <<"workspace", "string">>,
            <<"repo_slug", "string">>,
            <<"issue_id", "integer">> >>,
         << "workspace", "repo_slug", "issue_id" >>,
         <<>>),
    Tool("create_issue",
         << <<"workspace", "string">>,
            <<"repo_slug", "string">>,
            <<"title", "string">>,
            <<"description", "string">>,
            <<"kind", "string">>,
            <<"priority", "string">> >>,
         << "workspace", "repo_slug", "title" >>,
         << <<"kind", JStr("bug")>>, <<"priority", JStr("major")>> >>),
    Tool("update_issue",
         << <<"workspace", "string">>,
            <<"repo_slug", "string">>,
            <<"issue_id", "integer">>,
            <<"title", "string">>,
            <<"description", "string">>,
            <<"state", "string">>,
            <<"kind", "string">>,
            <<"priority", "string">> >>,
         << "workspace", "repo_slug", "issue_id" >>,
         <<>>),
    Tool("list_workspaces",
         <<>>,
         <<>>,
         <<>>),
    Tool("get_workspace",
         << <<"workspace", "string">> >>,
         << "workspace" >>,
         <<>>)
    >>

\* the names the if/elif chain of call_tool compares `name` with, in order
Bitbucket_call_tool_names ==
    << "get_repository",
       "list_repositories",
       "create_repository",
       "search_code",
       "list_pull_requests",
       "get_pull_request",
       "create_pull_request",
       "update_pull_request",
       "merge_pull_request",
       "decline_pull_request",
       "approve_pull_request",
       "unapprove_pull_request",
       "list_pr_comments",
       "add_pr_comment",
       "list_branches",
       "get_branch",
       "create_branch",
       "delete_branch",
       "list_commits",
       "get_commit",
       "get_commit_diff",
       "list_issues",
       "get_issue",
       "create_issue",
       "update_issue",
       "list_workspaces",
       "get_workspace" >>

\* the keys a branch reads as arguments[key], in evaluation order
Bitbucket_call_tool_indexed(name) ==
    CASE name = "get_repository" -> << "workspace", "repo_slug" >>
      [] name = "list_repositories" -> << "workspace" >>
      [] name = "create_repository" -> << "workspace", "repo_slug" >>
      [] name = "search_code" -> << "workspace", "repo_slug", "search_query" >>
      [] name = "list_pull_requests" -> << "workspace", "repo_slug" >>
      [] name = "get_pull_request" -> << "workspace", "repo_slug", "pr_id" >>
      [] name = "create_pull_request" -> << "workspace",
            "repo_slug",
            "title",
            "source_branch",
            "destination_branch" >>
      [] name = "update_pull_request" -> << "workspace", "repo_slug", "pr_id" >>
      [] name = "merge_pull_request" -> << "workspace", "repo_slug", "pr_id" >>
      [] name = "decline_pull_request" -> << "workspace", "repo_slug", "pr_id" >>
      [] name = "approve_pull_request" -> << "workspace", "repo_slug", "pr_id" >>
      [] name = "unapprove_pull_request" -> << "workspace", "repo_slug", "pr_id" >>
      [] name = "list_pr_comments" -> << "workspace", "repo_slug", "pr_id" >>
      [] name = "add_pr_comment" -> << "workspace", "repo_slug", "pr_id", "content" >>
      [] name = "list_branches" -> << "workspace", "repo_slug" >>
      [] name = "get_branch" -> << "workspace", "repo_slug", "branch_name" >>
      [] name = "create_branch" -> << "workspace", "repo_slug", "branch_name", "target" >>
      [] name = "delete_branch" -> << "workspace", "repo_slug", "branch_name" >>
      [] name = "list_commits" -> << "workspace", "repo_slug" >>
      [] name = "get_commit" -> << "workspace", "repo_slug", "commit_hash" >>
      [] name = "get_commit_diff" -> << "workspace", "repo_slug", "commit_hash" >>
      [] name = "list_issues" -> << "workspace", "repo_slug" >>
      [] name = "get_issue" -> << "workspace", "repo_slug", "issue_id" >>
      [] name = "create_issue" -> << "workspace", "repo_slug", "title" >>
      [] name = "update_issue" -> << "workspace", "repo_slug", "issue_id" >>
      [] name = "list_workspaces" -> <<>>
      [] name = "get_workspace" -> << "workspace" >>

\* the client call a branch makes, once every arguments[key] it reads is there
Bitbucket_call_tool_invoke(self, name, arguments) ==
    CASE name = "get_repository" ->
            Bitbucket_get_repository(
                self,
                arguments["workspace"],
                arguments["repo_slug"])
      [] name = "list_repositories" ->
            Bitbucket_list_repositories(
                self,
                arguments["workspace"])
      [] name = "create_repository" ->
            Bitbucket_create_repository(
                self,
                arguments["workspace"],
                arguments["repo_slug"],
                Get(arguments, "is_private", JBool(TRUE)),
                Get(arguments, "description", JNull),
                Get(arguments, "project_key", JNull))
      [] name = "search_code" ->
            Bitbucket_search_code(
                self,
                arguments["workspace"],
                arguments["repo_slug"],
                arguments["search_query"])
      [] name = "list_pull_requests" ->
            Bitbucket_list_pull_requests(
                self,
                arguments["workspace"],
                arguments["repo_slug"],
                Get(arguments, "state", JNull))
      [] name = "get_pull_request" ->
            Bitbucket_get_pull_request(
                self,
                arguments["workspace"],
                arguments["repo_slug"],
                arguments["pr_id"])
      [] name = "create_pull_request" ->
            Bitbucket_create_pull_request(
                self,
                arguments["workspace"],
                arguments["repo_slug"],
                arguments["title"],
                arguments["source_branch"],
                arguments["destination_branch"],
                Get(arguments, "description", JNull),
                Get(arguments, "close_source_branch", JBool(FALSE)))
      [] name = "update_pull_request" ->
            Bitbucket_update_pull_request(
                self,
                arguments["workspace"],
                arguments["repo_slug"],
                arguments["pr_id"],
                Get(arguments, "title", JNull),
                Get(arguments, "description", JNull))
      [] name = "merge_pull_request" ->
            Bitbucket_merge_pull_request(
                self,
                arguments["workspace"],
                arguments["repo_slug"],
                arguments["pr_id"],
                Get(arguments, "merge_strategy", JStr("merge_commit")),
                Get(arguments, "message", JNull))
      [] name = "decline_pull_request" ->
            Bitbucket_decline_pull_request(
                self,
                arguments["workspace"],
                arguments["repo_slug"],
                arguments["pr_id"])
      [] name = "approve_pull_request" ->
            Bitbucket_approve_pull_request(
                self,
                arguments["workspace"],
                arguments["repo_slug"],
                arguments["pr_id"])
      [] name = "unapprove_pull_request" ->
            Bitbucket_unapprove_pull_request(
                self,
                arguments["workspace"],
                arguments["repo_slug"],
                arguments["pr_id"])
      [] name = "list_pr_comments" ->
            Bitbucket_list_pr_comments(
                self,
                arguments["workspace"],
                arguments["repo_slug"],
                arguments["pr_id"])
      [] name = "add_pr_comment" ->
            Bitbucket_add_pr_comment(
                self,
                arguments["workspace"],
                arguments["repo_slug"],
                arguments["pr_id"],
                arguments["content"])
      [] name = "list_branches" ->
            Bitbucket_list_branches(
                self,
                arguments["workspace"],
                arguments["repo_slug"])
      [] name = "get_branch" ->
            Bitbucket_get_branch(
                self,
                arguments["workspace"],
                arguments["repo_slug"],
                arguments["branch_name"])
      [] name = "create_branch" ->
            Bitbucket_create_branch(
                self,
                arguments["workspace"],
                arguments["repo_slug"],
                arguments["branch_name"],
                arguments["target"])
      [] name = "delete_branch" ->
            Bitbucket_delete_branch(
                self,
                arguments["workspace"],
                arguments["repo_slug"],
                arguments["branch_name"])
      [] name = "list_commits" ->
            Bitbucket_list_commits(
                self,
                arguments["workspace"],
                arguments["repo_slug"],
                Get(arguments, "branch", JNull))
      [] name = "get_commit" ->
            Bitbucket_get_commit(
                self,
                arguments["workspace"],
                arguments["repo_slug"],
                arguments["commit_hash"])
      [] name = "get_commit_diff" ->
            Bitbucket_get_commit_diff(
                self,
                arguments["workspace"],
                arguments["repo_slug"],
                arguments["commit_hash"])
      [] name = "list_issues" ->
            Bitbucket_list_issues(
                self,
                arguments["workspace"],
                arguments["repo_slug"],
                Get(arguments, "state", JNull))
      [] name = "get_issue" ->
            Bitbucket_get_issue(
                self,
                arguments["workspace"],
                arguments["repo_slug"],
                arguments["issue_id"])
      [] name = "create_issue" ->
            Bitbucket_create_issue(
                self,
                arguments["workspace"],
                arguments["repo_slug"],
                arguments["title"],
                Get(arguments, "description", JNull),
                Get(arguments, "kind", JStr("bug")),
                Get(arguments, "priority", JStr("major")))
      [] name = "update_issue" ->
            Bitbucket_update_issue(
                self,
                arguments["workspace"],
                arguments["repo_slug"],
                arguments["issue_id"],
                Get(arguments, "title", JNull),
                Get(arguments, "description", JNull),
                Get(arguments, "state", JNull),
                Get(arguments, "kind", JNull),
                Get(arguments, "priority", JNull))
      [] name = "list_workspaces" ->
            Bitbucket_list_workspaces(
                self)
      [] name = "get_workspace" ->
            Bitbucket_get_workspace(
                self,
                arguments["workspace"])

(***************************************************************************)
(* call_tool.  The handler's position is a function of its inputs and of   *)
(* the replies its awaits have received so far.                            *)
(***************************************************************************)
TextContent(text) == [type |-> "text", text |-> text]

NoRequest == Request("", "", Absent, Absent)

\* the handler awaits `request`
Awaiting(request) ==
    [pc |-> "awaiting", request |-> request, outcome |-> "", response |-> <<>>,
     exception |-> ""]

\* the handler returned `response`
Returned(response) ==
    [pc |-> "done", request |-> NoRequest, outcome |-> "returned",
     response |-> response, exception |-> ""]

\* an exception left the handler
Propagated(message) ==
    [pc |-> "done", request |-> NoRequest, outcome |-> "raised", response |-> <<>>,
     exception |-> message]

InSeq(x, xs) == \E i \in 1..Len(xs) : xs[i] = x

\* the keys of `indexed`, in order, that `arguments` lacks
Missing(indexed, arguments) ==
    SelectSeq(indexed, LAMBDA k : k \notin DOMAIN arguments)

\* faulty variant of the message: the key without its quotes
KeyErrorMessage_bare(key) == key

\* str(KeyError(key))
KeyErrorMessage(key) == "'" \o key \o "'"

\* a client method with one await, after the replies so far
AfterReplies(first, replies, own) ==
    IF Len(replies) = 0 THEN first
    ELSE IF AwaitRaises(first.request, replies[1]) /= ""
    THEN Raise(AwaitRaises(first.request, replies[1]))
    ELSE CASE first.returns = "json" -> ReturnJson(replies[1])
           [] first.returns = "value" -> Return_(first.value)
           [] OTHER -> own

\* the JiraClient method call_tool invoked, after the replies so far
Jira_client_call(self, name, arguments, replies) ==
    LET first == Jira_call_tool_invoke(self, name, arguments)
        second == Jira_transition_issue_lookup(
                      self, arguments["issue_key"],
                      Get(arguments, "transition_id", JNull),
                      Get(arguments, "transition_name", JNull), replies[1])
        own == CASE first.returns = "get_issue" -> Jira_get_issue_result(replies[1])
                 [] first.returns = "get_custom_fields" ->
                        Jira_get_custom_fields_result(replies[1])
                 [] first.returns = "transitions" ->
                        IF second.kind = "raise" THEN second
                        ELSE AfterReplies(second, Tail(replies), second)
    IN  AfterReplies(first, replies, own)

\* faulty variant of the else branch: the name is reported in lower case
Jira_call_tool_else_lowered(name) ==
    Returned(<<TextContent("Unknown tool: " \o Lower(name))>>)

\* the else branch of the chain
Jira_call_tool_else(name) ==
    Returned(<<TextContent("Unknown tool: " \o name)>>)

\* `return [TextContent(type="text", text=json.dumps(result, indent=2))]`
Jira_call_tool_return(result) ==
    Returned(<<TextContent(Dumps(result, 0))>>)

\* faulty variant of the except clause: the exception is raised again
Jira_call_tool_except_reraised(e) == Propagated(e)

\* `except Exception as e: return [TextContent(type="text", text=f"Error: {str(e)}")]`
Jira_call_tool_except(e) ==
    Returned(<<TextContent("Error: " \o e)>>)

\* faulty variant of the handler: required arguments are read with .get, so
\* a missing one reaches the client as None
Jira_call_tool_lenient(self, name, arguments, replies) ==
    IF ~InSeq(name, Jira_call_tool_names) THEN Jira_call_tool_else(name)
    ELSE LET indexed == Jira_call_tool_indexed(name)
             given == [k \in DOMAIN arguments \cup {indexed[i] : i \in 1..Len(indexed)} |->
                          Get(arguments, k, JNull)]
             result == Jira_client_call(self, name, given, replies)
         IN  CASE result.kind = "await" -> Awaiting(result.request)
               [] result.kind = "raise" -> Jira_call_tool_except(result.message)
               [] result.kind = "return" -> Jira_call_tool_return(result.value)

Jira_call_tool(self, name, arguments, replies) ==
    IF ~InSeq(name, Jira_call_tool_names) THEN Jira_call_tool_else(name)
    ELSE LET missing == Missing(Jira_call_tool_indexed(name), arguments)
             result == Jira_client_call(self, name, arguments, replies)
         IN  IF missing /= <<>> THEN Jira_call_tool_except(KeyErrorMessage(missing[1]))
             ELSE CASE result.kind = "await" -> Awaiting(result.request)
                    [] result.kind = "raise" -> Jira_call_tool_except(result.message)
                    [] result.kind = "return" -> Jira_call_tool_return(result.value)

\* the BitbucketClient method call_tool invoked, after the replies so far
Bitbucket_client_call(self, name, arguments, replies) ==
    LET first == Bitbucket_call_tool_invoke(self, name, arguments)
    IN  AfterReplies(first, replies, first)

\* faulty variant of the else branch: it falls through to json.dumps(result)
\* with result None
Bitbucket_call_tool_else_fallthrough(name) ==
    Returned(<<TextContent(Dumps(JNull, 0))>>)

Bitbucket_call_tool_else(name) ==
    Returned(<<TextContent("Unknown tool: " \o name)>>)

Bitbucket_call_tool_return(result) ==
    Returned(<<TextContent(Dumps(result, 0))>>)

Bitbucket_call_tool_except(e) ==
    Returned(<<TextContent("Error: " \o e)>>)

Bitbucket_call_tool(self, name, arguments, replies) ==
    IF ~InSeq(name, Bitbucket_call_tool_names) THEN Bitbucket_call_tool_else(name)
    ELSE LET missing == Missing(Bitbucket_call_tool_indexed(name), arguments)
             result == Bitbucket_client_call(self, name, arguments, replies)
         IN  IF missing /= <<>>
             THEN Bitbucket_call_tool_except(KeyErrorMessage(missing[1]))
             ELSE CASE result.kind = "await" -> Awaiting(result.request)
                    [] result.kind = "raise" -> Bitbucket_call_tool_except(result.message)
                    [] result.kind = "return" -> Bitbucket_call_tool_return(result.value)

\* faulty variant of the handler: `result` is kept on the server object, not
\* in the activation, so a handler that finishes while another dispatch's
\* result is still there returns that one
call_tool_shared(name, arguments, replies) ==
    LET h == IF server = "jira" THEN Jira_call_tool(client, name, arguments, replies)
             ELSE Bitbucket_call_tool(client, name, arguments, replies)
        others == {t \in DOMAIN calls :
                      /\ calls[t].pc = "done"
                      /\ calls[t].outcome = "returned"
                      /\ calls[t].response /= h.response}
    IN  IF h.pc = "done" /\ others /= {}
        THEN Returned(calls[CHOOSE t \in others : TRUE].response)
        ELSE h

\* the handler of the server this process is
call_tool(name, arguments, replies) ==
    IF server = "jira" THEN Jira_call_tool(client, name, arguments, replies)
    ELSE Bitbucket_call_tool(client, name, arguments, replies)

\* the catalog of the server this process is
\* faulty variant of the catalog: the tool of a finished dispatch is dropped
list_tools_spent ==
    LET catalog == IF server = "jira" THEN Jira_list_tools ELSE Bitbucket_list_tools
    IN  SelectSeq(catalog,
                  LAMBDA tool : \A s \in DOMAIN calls :
                      ~(calls[s].pc = "done" /\ calls[s].name = tool.name))

list_tools == IF server = "jira" THEN Jira_list_tools ELSE Bitbucket_list_tools

(***************************************************************************)
(* The clients' constructors.                                              *)
(***************************************************************************)
\* faulty variant of the constructor: the URL is stored as it is given
JiraClient_unstripped(jira_url, email, api_token) ==
    [jira_url |-> jira_url, email |-> email, api_token |-> api_token]

JiraClient(jira_url, email, api_token) ==
    [jira_url |-> RStripSlash(jira_url), email |-> email, api_token |-> api_token]

BitbucketClient(username, app_password) ==
    [BASE_URL |-> "https://api.bitbucket.org/2.0", username |-> username,
     app_password |-> app_password]

(***************************************************************************)
(* The inputs: constructor inputs, tool names, argument mappings, replies. *)
(***************************************************************************)
\* at most this many optional arguments are supplied in one call
MaxOptional == 2
\* at most this many transitions in a fetched list
MaxTransitions == 2
\* at most this many fields in a fetched field list
MaxFields == 2
MaxChildren == 2

CtorInputs ==
    [server : {"jira"},
     url : {"https://acme.atlassian.net", "https://acme.atlassian.net//"},
     user : {"dev@acme.io"}, secret : {"token"}]
    \cup
    [server : {"bitbucket"}, url : {""}, user : {"test_user"},
     secret : {"test_password"}]

\* the client a server constructs in __init__
Construct(c) ==
    IF c.server = "jira" THEN JiraClient(c.url, c.user, c.secret)
    ELSE BitbucketClient(c.user, c.secret)

Names(tools) == {tools[i].name : i \in 1..Len(tools)}

\* names neither registry holds, among them case variants of registered ones
StrayNames == {"", "bogus", "Get_Issue", "GET_REPOSITORY", "get_issue "}

ToolNames == Names(Jira_list_tools) \cup Names(Bitbucket_list_tools) \cup StrayNames

ToolNamed(tools, name) == tools[CHOOSE i \in 1..Len(tools) : tools[i].name = name]

\* a sample value of a string argument
Sample(key) ==
    CASE key = "issue_key" -> "PROJ-1"
      [] key \in {"project_key", "key"} -> "PROJ"
      [] key = "workspace" -> "acme"
      [] key = "repo_slug" -> "site"
      [] key = "project_type_key" -> "business"
      [] key = "merge_strategy" -> "squash"
      [] key = "kind" -> "task"
      [] key = "priority" -> "critical"
      [] key = "state" -> "open"
      [] key = "transition_id" -> "41"
      [] key = "transition_name" -> "done"
      [] OTHER -> "some " \o key

\* the values an argument is drawn from when it is supplied
Candidates(tool, key, type) ==
    LET required == InSeq(key, tool.required)
    IN  CASE key = "transition_name" -> {JStr(""), JStr("done"), JStr("Done"), JStr("Unknown")}
          [] key = "issue_keys" ->
                {JList(<<>>), JList(<<JStr("PROJ-1"), JStr("PROJ-2")>>)}
          [] type = "string" /\ required -> {JStr(Sample(key))}
          [] type = "string" /\ ~required -> {JStr(""), JStr(Sample(key))}
          [] type = "integer" /\ required -> {JNum(7)}
          [] type \in {"integer", "number"} /\ ~required -> {JNum(0), JNum(10)}
          [] type = "boolean" -> {JBool(FALSE), JBool(TRUE)}
          [] type = "array" -> {JList(<<>>), JList(<<JStr("backend")>>)}

\* the argument mappings over the properties i.. of a tool that supply at
\* most `optional` optional arguments
RECURSIVE Mappings(_, _, _)
Mappings(tool, i, optional) ==
    IF i > Len(tool.properties) THEN {<<>>}
    ELSE LET key == tool.properties[i][1]
             type == tool.properties[i][2]
             required == InSeq(key, tool.required)
             left == IF required THEN optional ELSE optional - 1
         IN  Mappings(tool, i + 1, optional)
             \cup (IF left < 0 THEN {}
                   ELSE {(key :> v) @@ m :
                            v \in Candidates(tool, key, type),
                            m \in Mappings(tool, i + 1, left)})

\* the argument mappings a call of `name` is made with
ArgumentMappings(name) ==
    IF name \in Names(list_tools)
    THEN Mappings(ToolNamed(list_tools, name), 1, MaxOptional)
    ELSE {<<>>, ("issue_key" :> JStr("PROJ-1")), ("workspace" :> JStr("acme"))}

\* the sequences over S of length at most n
RECURSIVE SeqsUpTo(_, _)
SeqsUpTo(S, n) ==
    IF n = 0 THEN {<<>>}
    ELSE SeqsUpTo(S, n - 1)
         \cup {Append(q, x) : q \in {r \in SeqsUpTo(S, n - 1) : Len(r) = n - 1}, x \in S}

Transition(id, name) == JObj(<< <<"id", JStr(id)>>, <<"name", JStr(name)>> >>)

TransitionEntries ==
    {Transition("31", "In Progress"), Transition("41", "Done"),
     Transition("51", "DONE"), Transition("61", "Done Deal"),
     Transition("", "done"), JObj(<< <<"id", JStr("71")>> >>)}

TransitionBodies ==
    {JObj(<< <<"transitions", JList(q)>> >>) : q \in SeqsUpTo(TransitionEntries, MaxTransitions)}
    \cup {JObj(<< <<"errorMessages", JList(<<>>)>> >>)}

TextNode(text) == JObj(<< <<"type", JStr("text")>>, <<"text", JStr(text)>> >>)

\* the inline nodes of a paragraph: text, text without its text field
Inlines ==
    {TextNode("a"), JObj(<< <<"type", JStr("text")>> >>)}

Paragraph(content) ==
    JObj(<< <<"type", JStr("paragraph")>>, <<"content", JList(content)>> >>)

\* the block nodes of a document that have no children: text nodes of their
\* own, a node without content
Blocks ==
    {TextNode("b"), TextNode("c"), JObj(<< <<"type", JStr("emoji")>> >>)}

DocOf(content) ==
    JObj(<< <<"type", JStr("doc")>>, <<"version", JNum(1)>>,
            <<"content", JList(content)>> >>)

\* the documents: at most MaxChildren blocks without children, or a
\* paragraph of at most MaxChildren inline nodes before or after such a block
Documents ==
    {DocOf(q) : q \in SeqsUpTo(Blocks, MaxChildren)}
    \cup {DocOf(<<Paragraph(q), block>>) :
              q \in SeqsUpTo(Inlines, MaxChildren), block \in Blocks}
    \cup {DocOf(<<block, Paragraph(q)>>) :
              q \in SeqsUpTo(Inlines, MaxChildren), block \in Blocks}

\* the free texts a description is written from
Texts == {"", "hello world", " a  b ", "x"}

Descriptions ==
    {JNull, JStr(""), JStr("plain"), JObj(<<>>),
     Doc(JStr("hello world")),
     JList(<<TextNode("a"), JObj(<< <<"type", JStr("emoji")>> >>), TextNode("b")>>),
     JObj(<< <<"type", JStr("doc")>>,
             <<"content", JList(<<
                 JObj(<< <<"type", JStr("paragraph")>>,
                         <<"content", JList(<<TextNode("x"),
                                              JObj(<< <<"type", JStr("text")>> >>)>>)>> >>),
                 JObj(<< <<"type", JStr("rule")>> >>),
                 JObj(<< <<"type", JStr("paragraph")>>,
                         <<"content", JList(<<TextNode("y")>>)>> >>) >>)>> >>),
     JObj(<< <<"type", JStr("doc")>>, <<"content", JNull>> >>),
     JObj(<< <<"type", JStr("text")>>, <<"text", JNull>> >>),
     JNum(7), JBool(TRUE),
     JObj(<< <<"content", JList(<<TextNode("n")>>)>>, <<"text", JStr("skipped")>> >>)}
    \cup {Doc(JStr(text)) : text \in Texts}
    \cup Documents

IssueBodies ==
    {JObj(<< <<"key", JStr("PROJ-1")>> >>),
     JObj(<< <<"key", JStr("PROJ-1")>>, <<"fields", JNull>> >>),
     JObj(<< <<"key", JStr("PROJ-1")>>,
             <<"fields", JObj(<< <<"summary", JStr("s")>> >>)>> >>)}
    \cup {JObj(<< <<"key", JStr("PROJ-1")>>,
                  <<"fields", JObj(<< <<"description", d>>,
                                      <<"summary", JStr("s")>> >>)>> >>) :
             d \in Descriptions}

FieldEntries ==
    {JObj(<< <<"id", JStr("customfield_10105")>>, <<"name", JStr("Story Points")>>,
             <<"custom", JBool(TRUE)>>,
             <<"schema", JObj(<< <<"type", JStr("number")>> >>)>> >>),
     JObj(<< <<"id", JStr("summary")>>, <<"name", JStr("Summary")>>,
             <<"custom", JBool(FALSE)>>,
             <<"schema", JObj(<< <<"type", JStr("string")>> >>)>> >>),
     JObj(<< <<"id", JStr("customfield_10200")>>, <<"custom", JBool(TRUE)>> >>)}

FieldBodies == {JList(q) : q \in SeqsUpTo(FieldEntries, MaxFields)}

\* bodies any endpoint may answer with
PlainBodies ==
    {JObj(<< <<"id", JNum(1)>>, <<"name", JStr("n")>> >>),
     JList(<<JObj(<< <<"status", JStr("remote")>> >>)>>)}

\* the 2xx bodies the reply to the n-th request of a call is drawn from
Bodies(name, n) ==
    PlainBodies
    \cup (IF server = "jira" /\ name = "get_issue" THEN IssueBodies
          ELSE IF server = "jira" /\ name = "get_custom_fields" THEN FieldBodies
          ELSE IF server = "jira" /\ name = "transition_issue" /\ n = 1
          THEN TransitionBodies
          ELSE {})

\* the replies to the n-th request of a call: the call raises, a non-2xx
\* status, a 2xx without a JSON body, a 2xx with one
Replies(name, n) ==
    {Reply("All connection attempts failed", 0, Invalid),
     Reply("", 404, JObj(<< <<"errorMessages", JList(<<JStr("not found")>>)>> >>)),
     Reply("", 204, Invalid)}
    \cup {Reply("", 200, b) : b \in Bodies(name, n)}

(***************************************************************************)
(* The state machine.                                                      *)
(***************************************************************************)
Idle ==
    [pc |-> "idle", name |-> "", arguments |-> <<>>, requests |-> <<>>,
     replies |-> <<>>, outcome |-> "", response |-> <<>>, exception |-> ""]

\* the slot of a call whose handler is at position h
Slot(name, arguments, requests, replies, h) ==
    [pc |-> h.pc, name |-> name, arguments |-> arguments,
     requests |-> IF h.pc = "awaiting" THEN Append(requests, h.request) ELSE requests,
     replies |-> replies, outcome |-> h.outcome, response |-> h.response,
     exception |-> h.exception]

Init ==
    /\ ctor \in CtorInputs
    /\ server = ctor.server
    /\ client = Construct(ctor)
    /\ calls = [s \in {1} |-> Idle]
    /\ listed = <<>>

\* the transport calls call_tool(name, arguments): the handler runs to its
\* first await, or to its end
CallTool(s, name, arguments) ==
    /\ calls[s].pc = "idle"
    /\ calls' = [calls EXCEPT ![s] =
                    Slot(name, arguments, <<>>, <<>>, call_tool(name, arguments, <<>>))]
    /\ UNCHANGED <<server, ctor, client, listed>>

\* faulty variant of the completion: a response that is not a 2xx makes the
\* client drop its secret
HttpResponse_forgetful(s, reply) ==
    /\ calls[s].pc = "awaiting"
    /\ LET c == calls[s]
           replies == Append(c.replies, reply)
       IN  calls' = [calls EXCEPT ![s] =
                        Slot(c.name, c.arguments, c.requests, replies,
                             call_tool(c.name, c.arguments, replies))]
    /\ client' = IF IsSuccess(reply) THEN client
                 ELSE IF server = "jira" THEN [client EXCEPT !.api_token = ""]
                 ELSE [client EXCEPT !.app_password = ""]
    /\ UNCHANGED <<server, ctor, listed>>

\* the awaited HTTP call completes with `reply`: the handler resumes and
\* runs to its next await, or to its end
HttpResponse(s, reply) ==
    /\ calls[s].pc = "awaiting"
    /\ LET c == calls[s]
           replies == Append(c.replies, reply)
       IN  calls' = [calls EXCEPT ![s] =
                        Slot(c.name, c.arguments, c.requests, replies,
                             call_tool(c.name, c.arguments, replies))]
    /\ UNCHANGED <<server, ctor, client, listed>>

\* the transport takes the handler's result; the slot is free again
Return(s) ==
    /\ calls[s].pc = "done"
    /\ calls' = [calls EXCEPT ![s] = Idle]
    /\ UNCHANGED <<server, ctor, client, listed>>

\* the transport calls list_tools(): the handler builds the catalog and
\* returns it
ListTools ==
    /\ listed' = list_tools
    /\ UNCHANGED <<server, ctor, client, calls>>

Next ==
    \/ ListTools
    \/ \E s \in DOMAIN calls :
           \/ /\ calls[s].pc = "idle"
              /\ \E name \in ToolNames : \E arguments \in ArgumentMappings(name) :
                     CallTool(s, name, arguments)
           \/ /\ calls[s].pc = "awaiting"
              /\ \E reply \in Replies(calls[s].name, Len(calls[s].replies) + 1) :
                     HttpResponse(s, reply)
           \/ Return(s)

Spec == Init /\ [][Next]_vars

(***************************************************************************)
(* Several dispatches in flight: the transport starts a handler for each   *)
(* request it reads, and the handlers share the server's one client.       *)
(***************************************************************************)
\* at most this many dispatches are in flight at once
MaxSlots == 2

\* the calls the concurrent dispatches are drawn from: one of two requests,
\* one of one request, a name that only the other server registers
ConcurrentCalls ==
    {[name |-> "transition_issue",
      arguments |-> ("issue_key" :> JStr("PROJ-1")) @@ ("transition_name" :> JStr("done"))],
     [name |-> "get_project", arguments |-> ("project_key" :> JStr("PROJ"))],
     [name |-> "delete_branch",
      arguments |-> ("workspace" :> JStr("acme")) @@ ("repo_slug" :> JStr("site"))
                    @@ ("branch_name" :> JStr("old"))],
     [name |-> "get_workspace", arguments |-> ("workspace" :> JStr("acme"))]}

\* the replies to the n-th request of a concurrent call
ConcurrentReplies(name, n) ==
    {Reply("", 404, JObj(<< <<"errorMessages", JList(<<JStr("not found")>>)>> >>)),
     Reply("", 200,
           IF name = "transition_issue" /\ n = 1
           THEN JObj(<< <<"transitions", JList(<<Transition("41", "Done")>>)>> >>)
           ELSE JObj(<< <<"id", JNum(1)>>, <<"name", JStr("n")>> >>))}

InitConcurrent ==
    /\ ctor \in CtorInputs
    /\ server = ctor.server
    /\ client = Construct(ctor)
    /\ calls = [s \in 1..MaxSlots |-> Idle]
    /\ listed = <<>>

NextConcurrent ==
    \E s \in DOMAIN calls :
        \/ /\ calls[s].pc = "idle"
           /\ \E call \in ConcurrentCalls : CallTool(s, call.name, call.arguments)
        \/ /\ calls[s].pc = "awaiting"
           /\ \E reply \in ConcurrentReplies(calls[s].name, Len(calls[s].replies) + 1) :
                  HttpResponse(s, reply)
        \/ Return(s)

SpecConcurrent == InitConcurrent /\ [][NextConcurrent]_vars

(***************************************************************************)
(* Properties.                                                             *)
(***************************************************************************)
\* the calls in progress or finished
Called == {s \in DOMAIN calls : calls[s].pc /= "idle"}
Done == {s \in DOMAIN calls : calls[s].pc = "done"}

\* the name is one of the provider's registered tool names
Registered(name) == name \in Names(list_tools)

\* the required arguments, per the inputSchema, that a call does not supply
Lacking(c) ==
    SelectSeq(ToolNamed(list_tools, c.name).required,
              LAMBDA k : k \notin DOMAIN c.arguments)

\* the text of the single payload a call returned
Text(c) == c.response[1].text

\* the call returned exactly one text payload, `text`
ReturnedText(c, text) ==
    c.outcome = "returned" /\ c.response = <<TextContent(text)>>

\* a reply that makes the client call raise: no response, or a non-2xx one
Failure(reply) == reply.error /= "" \/ ~IsSuccess(reply)

\* C1: a call of a name that is not a registered tool name returns exactly
\* "Unknown tool: {name}" as an ordinary result and issues no HTTP request
C1_UnknownTool ==
    \A s \in Called :
        ~Registered(calls[s].name) =>
            /\ calls[s].pc = "done"
            /\ ReturnedText(calls[s], "Unknown tool: " \o calls[s].name)
            /\ calls[s].requests = <<>>

C1_Witness ==
    \E s \in Done :
        /\ server = "jira"
        /\ calls[s].name = "Get_Issue"
        /\ "issue_key" \in DOMAIN calls[s].arguments
        /\ Text(calls[s]) = "Unknown tool: Get_Issue"

\* JIRA transition_issue called by name: a transition_name and no transition_id
ByName(c) ==
    /\ server = "jira"
    /\ c.name = "transition_issue"
    /\ Truthy(Get(c.arguments, "transition_name", JNull))
    /\ ~Truthy(Get(c.arguments, "transition_id", JNull))

\* C2 as stated: a registered tool called with all its required arguments
\* issues exactly one HTTP request, whatever the optional arguments
C2_ExactlyOneCall ==
    \A s \in Called :
        (Registered(calls[s].name) /\ Lacking(calls[s]) = <<>>) =>
            /\ Len(calls[s].requests) <= 1
            /\ calls[s].pc = "done" => Len(calls[s].requests) = 1

\* C2 amended: exactly one HTTP request, except transition_issue by name,
\* which issues a GET and, only after a 2xx reply to it, a POST: two at most
C2_OneCallExceptByName ==
    \A s \in Called :
        (Registered(calls[s].name) /\ Lacking(calls[s]) = <<>>) =>
            LET c == calls[s]
            IN  /\ Len(c.requests) >= 1
                /\ ~ByName(c) => Len(c.requests) = 1
                /\ ByName(c) =>
                       /\ Len(c.requests) <= 2
                       /\ c.requests[1].method = "GET"
                       /\ Len(c.requests) = 2 =>
                              /\ ~Failure(c.replies[1])
                              /\ c.requests[2].method = "POST"

C2_Witness ==
    \E s \in Done :
        /\ ByName(calls[s])
        /\ Len(calls[s].requests) = 2
        /\ Len(calls[s].replies) = 2

\* C3 as stated: a registered tool called without a required argument ends
\* in an exception that leaves the handler
C3_MissingArgumentPropagates ==
    \A s \in Done :
        (Registered(calls[s].name) /\ Lacking(calls[s]) /= <<>>) =>
            calls[s].outcome = "raised"

\* C3 amended: the KeyError is caught at the dispatch boundary and returned
\* as the text "Error: '<key>'", <key> the first required argument missing
C3_MissingArgumentIsErrorText ==
    \A s \in Called :
        (Registered(calls[s].name) /\ Lacking(calls[s]) /= <<>>) =>
            /\ calls[s].pc = "done"
            /\ ReturnedText(calls[s], "Error: '" \o Lacking(calls[s])[1] \o "'")

C3_Witness ==
    \E s \in Done :
        /\ server = "bitbucket"
        /\ calls[s].name = "get_pull_request"
        /\ DOMAIN calls[s].arguments = {"workspace", "pr_id"}
        /\ Text(calls[s]) = "Error: 'repo_slug'"

\* the methods whose result is a status object the client makes up itself
SynthesizedStatus ==
    IF server = "jira"
    THEN {"update_issue", "delete_issue", "assign_issue", "transition_issue",
          "delete_comment", "move_issues_to_sprint"}
    ELSE {"unapprove_pull_request", "delete_branch"}

\* C4: when the client call raises (the HTTP call fails, the status is not
\* 2xx, the body is not JSON, no transition matches), the handler returns
\* "Error: " and the exception's message; no exception leaves the handler
C4_FailureIsErrorText ==
    \A s \in Called :
        LET c == calls[s]
            n == Len(c.replies)
            last == c.replies[n]
        IN  /\ c.outcome /= "raised"
            /\ (n >= 1 /\ last.error /= "") =>
                   c.pc = "done" /\ ReturnedText(c, "Error: " \o last.error)
            /\ (n >= 1 /\ last.error = "" /\ ~IsSuccess(last)) =>
                   /\ c.pc = "done"
                   /\ ReturnedText(c, "Error: " \o StatusErrorMessage(c.requests[n], last))
                   /\ Contains(Text(c), ToString(last.status_code))
            /\ (/\ n >= 1
                /\ ~Failure(last)
                /\ last.content = Invalid
                /\ c.name \notin SynthesizedStatus) =>
                   c.pc = "done" /\ ReturnedText(c, "Error: " \o JSONDecodeMessage)
            /\ (ByName(c) /\ n = 1 /\ c.pc = "done" /\ ~Failure(last)) =>
                   /\ c.outcome = "returned"
                   /\ StartsWith(Text(c), "Error: ")

C4_Witness ==
    \E s \in Done :
        /\ server = "bitbucket"
        /\ calls[s].name = "get_pull_request"
        /\ Len(calls[s].replies) = 1
        /\ calls[s].replies[1].status_code = 404
        /\ StartsWith(Text(calls[s]), "Error: ")
        /\ Contains(Text(calls[s]), "404")

\* the three forms of a payload's text
UnknownForm(c) == Text(c) = "Unknown tool: " \o c.name
ErrorForm(c) == StartsWith(Text(c), "Error: ")
JsonForm(c) == StartsWith(Text(c), "{") \/ StartsWith(Text(c), "[")

\* C5: a call that returns yields exactly one text payload, in exactly one of
\* three forms: the JSON of the client method's result, "Unknown tool:
\* {name}" or "Error: {message}"; the JSON form only when the client call
\* completed without raising
C5_ThreeForms ==
    \A s \in Done :
        LET c == calls[s]
        IN  c.outcome = "returned" =>
                /\ Len(c.response) = 1
                /\ c.response[1].type = "text"
                /\ \/ JsonForm(c) /\ ~UnknownForm(c) /\ ~ErrorForm(c)
                   \/ ~JsonForm(c) /\ UnknownForm(c) /\ ~ErrorForm(c)
                   \/ ~JsonForm(c) /\ ~UnknownForm(c) /\ ErrorForm(c)
                /\ UnknownForm(c) <=> ~Registered(c.name)
                /\ JsonForm(c) =>
                       /\ Registered(c.name)
                       /\ Lacking(c) = <<>>
                       /\ Len(c.replies) >= 1
                       /\ \A i \in 1..Len(c.replies) : ~Failure(c.replies[i])
                       /\ c.name \notin SynthesizedStatus =>
                              c.replies[Len(c.replies)].content /= Invalid

C5_Witness ==
    \E s \in Done :
        /\ server = "jira"
        /\ calls[s].name = "list_projects"
        /\ Len(calls[s].replies) = 1
        /\ calls[s].replies[1].content \notin {Invalid, Absent}
        /\ calls[s].outcome = "returned"
        /\ Text(calls[s]) = Dumps(calls[s].replies[1].content, 0)

\* C6: a registered tool called without a required argument issues no HTTP
\* request
C6_MissingArgumentNoCall ==
    \A s \in Called :
        (Registered(calls[s].name) /\ Lacking(calls[s]) /= <<>>) =>
            /\ calls[s].pc = "done"
            /\ calls[s].requests = <<>>
            /\ calls[s].replies = <<>>

C6_Witness ==
    \E s \in Done :
        /\ server = "jira"
        /\ calls[s].name = "create_issue"
        /\ "project_key" \in DOMAIN calls[s].arguments
        /\ "summary" \notin DOMAIN calls[s].arguments
        /\ calls[s].requests = <<>>

\* C7 as stated: an argument the caller leaves out never reaches the wire:
\* no request carries a null query parameter or a null body field, and JIRA
\* create_issue without a description sends no description key
C7_AbsentNeverSent ==
    \A s \in Called :
        \A i \in 1..Len(calls[s].requests) :
            LET request == calls[s].requests[i]
            IN  /\ request.json /= Absent => ~HasNull(request.json)
                /\ request.params /= Absent => ~HasNull(request.params)
                /\ (/\ server = "jira"
                    /\ calls[s].name = "create_issue"
                    /\ "description" \notin DOMAIN calls[s].arguments) =>
                       ~Has(At(request.json, "fields"), "description")

\* the methods claimed to hand back the remote body as it came
Verbatim(c) ==
    /\ Registered(c.name)
    /\ Lacking(c) = <<>>
    /\ c.name \notin SynthesizedStatus
    /\ ~(server = "jira" /\ c.name = "get_issue")

\* the call got one 2xx reply with a JSON body
Answered(c) ==
    /\ Len(c.replies) = 1
    /\ ~Failure(c.replies[1])
    /\ c.replies[1].content /= Invalid

\* C8 as stated: every method but the synthesized-status ones and JIRA
\* get_issue returns the remote JSON body unchanged
C8_BodyUnchanged ==
    \A s \in Done :
        (Verbatim(calls[s]) /\ Answered(calls[s])) =>
            ReturnedText(calls[s], Dumps(calls[s].replies[1].content, 0))

\* the entries of a field list that get_custom_fields counts as custom
CustomOnes(body) ==
    SelectSeq(body.xs, LAMBDA field : Truthy(GetOr(field, "custom", JBool(FALSE))))

\* C8 amended: JIRA get_custom_fields is one more exception: it returns a
\* summary object that counts the fields, lists the custom ones and keeps
\* the remote body under all_fields; every other method returns the body
\* unchanged
C8_BodyUnchangedExceptCustomFields ==
    \A s \in Done :
        LET c == calls[s]
            body == c.replies[1].content
        IN  (Verbatim(c) /\ Answered(c)) =>
                IF server = "jira" /\ c.name = "get_custom_fields"
                THEN (body.t = "list" /\ \A i \in 1..Len(body.xs) : body.xs[i].t = "obj") =>
                         ReturnedText(c, Dumps(JObj(<<
                             <<"total_fields", JNum(Len(body.xs))>>,
                             <<"custom_fields_count", JNum(Len(CustomOnes(body)))>>,
                             <<"custom_fields", JList(CustomFields(body.xs, 1))>>,
                             <<"all_fields", body>> >>), 0))
                ELSE ReturnedText(c, Dumps(body, 0))

C8_Witness ==
    \E s \in Done :
        /\ server = "jira"
        /\ calls[s].name = "get_custom_fields"
        /\ Answered(calls[s])
        /\ calls[s].replies[1].content.t = "list"
        /\ Len(calls[s].replies[1].content.xs) = 2
        /\ Len(CustomOnes(calls[s].replies[1].content)) = 1
        /\ Contains(Text(calls[s]), "\"total_fields\": 2")
        /\ Text(calls[s]) /= Dumps(calls[s].replies[1].content, 0)

\* a JIRA get_issue whose reply is a 2xx with an issue object: one whose
\* fields, when it has them, are an object
GotIssue(c) ==
    /\ server = "jira"
    /\ c.name = "get_issue"
    /\ Lacking(c) = <<>>
    /\ Answered(c)
    /\ c.replies[1].content.t = "obj"
    /\ Has(c.replies[1].content, "fields") =>
           At(c.replies[1].content, "fields").t = "obj"

\* the issue body has a fields object that has a description key
HasDescription(body) ==
    Has(body, "fields") /\ Has(At(body, "fields"), "description")

\* the body with the pair (description_text, text) added at the end of its
\* fields object and nothing else touched
WithDescriptionText(body, text) ==
    JObj([i \in 1..Len(body.kv) |->
             IF body.kv[i][1] = "fields"
             THEN <<"fields", JObj(Append(body.kv[i][2].kv, <<"description_text", text>>))>>
             ELSE body.kv[i]])

\* C9 as stated: whenever fields.description is present, get_issue returns
\* the body with fields.description_text, the extractor's flattening of the
\* description, added; when fields or description is absent, the body as is
C9_DescriptionTextWhenPresent ==
    \A s \in Done :
        LET c == calls[s]
            body == c.replies[1].content
            text == _extract_text_from_doc(At(At(body, "fields"), "description"))
        IN  GotIssue(c) =>
                IF HasDescription(body)
                THEN /\ text.kind = "return"
                     /\ ReturnedText(c, Dumps(WithDescriptionText(body, text.value), 0))
                ELSE ReturnedText(c, Dumps(body, 0))

\* C9 amended: description_text is added when fields.description is present
\* and not empty (not null, "", {} or []) and the extractor returns for it;
\* an absent or empty description leaves the body as it came, with no key
\* added; when the extractor raises, get_issue fails with its message
C9_DescriptionTextWhenNotEmpty ==
    \A s \in Done :
        LET c == calls[s]
            body == c.replies[1].content
            description == At(At(body, "fields"), "description")
            text == _extract_text_from_doc(description)
        IN  GotIssue(c) =>
                IF HasDescription(body) /\ Truthy(description)
                THEN IF text.kind = "return"
                     THEN ReturnedText(c, Dumps(WithDescriptionText(body, text.value), 0))
                     ELSE ReturnedText(c, "Error: " \o text.message)
                ELSE ReturnedText(c, Dumps(body, 0))

C9_Witness ==
    \E s \in Done :
        /\ GotIssue(calls[s])
        /\ HasDescription(calls[s].replies[1].content)
        /\ At(At(calls[s].replies[1].content, "fields"), "description")
               = Doc(JStr("hello world"))
        /\ Contains(Text(calls[s]), "\"description_text\": \"hello world\"")

\* transition entry `entry` is the one named `name`, letter case aside
Named(entry, name) ==
    Lower(At(entry, "name").s) = Lower(name)

\* the reply is a 2xx whose body lists transitions, each with an id and a
\* name that are strings
ListsTransitions(reply) ==
    /\ ~Failure(reply)
    /\ reply.content /= Invalid
    /\ reply.content.t = "obj"
    /\ Has(reply.content, "transitions")
    /\ At(reply.content, "transitions").t = "list"
    /\ \A i \in 1..Len(At(reply.content, "transitions").xs) :
           LET entry == At(reply.content, "transitions").xs[i]
           IN  /\ entry.t = "obj"
               /\ Has(entry, "name") /\ At(entry, "name").t = "str"
               /\ Has(entry, "id") /\ At(entry, "id").t = "str"

C11_UnmatchedNameIsError ==
    \A s \in Called :
        LET c == calls[s]
            name == c.arguments["transition_name"].s
            entries == At(c.replies[1].content, "transitions").xs
        IN  (/\ ByName(c)
             /\ Lacking(c) = <<>>
             /\ Len(c.replies) >= 1
             /\ ListsTransitions(c.replies[1])
             /\ \A i \in 1..Len(entries) : ~Named(entries[i], name)) =>
                /\ c.pc = "done"
                /\ \A i \in 1..Len(c.requests) : c.requests[i].method /= "POST"
                /\ Len(c.requests) = 1
                /\ c.outcome = "returned"
                /\ Len(c.response) = 1
                /\ ErrorForm(c)
                /\ Contains(Text(c), "'" \o name \o "'")
                /\ Contains(Text(c), c.arguments["issue_key"].s)

C11_Witness ==
    \E s \in Done :
        /\ ByName(calls[s])
        /\ calls[s].arguments["transition_name"] = JStr("Unknown")
        /\ Len(calls[s].replies) = 1
        /\ ListsTransitions(calls[s].replies[1])
        /\ Len(At(calls[s].replies[1].content, "transitions").xs) = 2
        /\ Text(calls[s]) = "Error: Transition 'Unknown' not found for issue PROJ-1"

\* the acknowledgment a Bitbucket method makes up
Acknowledgment(name) ==
    IF name = "unapprove_pull_request"
    THEN JObj(<< <<"status", JStr("approval removed")>> >>)
    ELSE JObj(<< <<"status", JStr("branch deleted")>> >>)

\* C12: Bitbucket unapprove_pull_request and delete_branch return their fixed
\* acknowledgment whenever the remote call is a 2xx, whatever its body and
\* the arguments, and no acknowledgment when the remote call fails
C12_FixedAcknowledgment ==
    \A s \in Done :
        LET c == calls[s]
        IN  (/\ server = "bitbucket"
             /\ c.name \in {"unapprove_pull_request", "delete_branch"}
             /\ Lacking(c) = <<>>) =>
                /\ Len(c.replies) = 1
                /\ IF ~Failure(c.replies[1])
                   THEN ReturnedText(c, Dumps(Acknowledgment(c.name), 0))
                   ELSE /\ c.outcome = "returned"
                        /\ ErrorForm(c)
                        /\ ~Contains(Text(c), "approval removed")
                        /\ ~Contains(Text(c), "branch deleted")

C12_Witness ==
    \E s \in Done :
        /\ server = "bitbucket"
        /\ calls[s].name = "delete_branch"
        /\ Len(calls[s].replies) = 1
        /\ calls[s].replies[1].status_code = 200
        /\ calls[s].replies[1].content \in PlainBodies
        /\ Text(calls[s]) = "{\n  \"status\": \"branch deleted\"\n}"

\* the status object a JIRA method is to make up from its arguments
StatusObject(c) ==
    LET a == c.arguments
    IN  CASE c.name = "update_issue" ->
                 JObj(<< <<"status", JStr("updated")>>, <<"issue_key", a["issue_key"]>> >>)
          [] c.name = "delete_issue" ->
                 JObj(<< <<"status", JStr("deleted")>>, <<"issue_key", a["issue_key"]>> >>)
          [] c.name = "assign_issue" ->
                 JObj(<< <<"status", JStr("assigned")>>, <<"issue_key", a["issue_key"]>>,
                         <<"assignee_id", a["assignee_id"]>> >>)
          [] c.name = "transition_issue" ->
                 JObj(<< <<"status", JStr("transitioned")>>,
                         <<"issue_key", a["issue_key"]>> >>)
          [] c.name = "move_issues_to_sprint" ->
                 JObj(<< <<"status", JStr("moved")>>, <<"sprint_id", a["sprint_id"]>>,
                         <<"issue_count", JNum(Len(a["issue_keys"].xs))>> >>)

\* C13: JIRA update_issue, delete_issue, assign_issue, transition_issue and
\* move_issues_to_sprint return a status object made of their arguments
\* only, and return it only when the mutating HTTP call was a 2xx
C13_StatusFromArguments ==
    \A s \in Done :
        LET c == calls[s]
            n == Len(c.requests)
        IN  (/\ server = "jira"
             /\ c.name \in {"update_issue", "delete_issue", "assign_issue",
                            "transition_issue", "move_issues_to_sprint"}
             /\ Lacking(c) = <<>>) =>
                /\ c.outcome = "returned"
                /\ Len(c.replies) = n
                /\ IF c.requests[n].method /= "GET" /\ ~Failure(c.replies[n])
                   THEN ReturnedText(c, Dumps(StatusObject(c), 0))
                   ELSE ErrorForm(c) /\ ~Contains(Text(c), "\"status\"")

C13_Witness ==
    \E s \in Done :
        /\ server = "jira"
        /\ calls[s].name = "move_issues_to_sprint"
        /\ Lacking(calls[s]) = <<>>
        /\ Len(calls[s].arguments["issue_keys"].xs) = 2
        /\ Len(calls[s].replies) = 1
        /\ calls[s].replies[1].status_code = 204
        /\ Contains(Text(calls[s]), "\"issue_count\": 2")

\* the rich document JIRA is to receive for the text v
Wrapped(v) ==
    [t |-> "obj", kv |-> <<
        <<"type", [t |-> "str", s |-> "doc"]>>,
        <<"version", [t |-> "num", n |-> 1]>>,
        <<"content", [t |-> "list", xs |-> <<
            [t |-> "obj", kv |-> <<
                <<"type", [t |-> "str", s |-> "paragraph"]>>,
                <<"content", [t |-> "list", xs |-> <<
                    [t |-> "obj", kv |-> <<
                        <<"type", [t |-> "str", s |-> "text"]>>,
                        <<"text", v>> >>] >>]>> >>] >>]>> >>]

\* the body field `key` of the request carries the wrapped argument `arg`
Carries(c, request, key, arg) ==
    LET fields == IF c.name = "add_comment" THEN request.json
                  ELSE At(request.json, "fields")
    IN  Has(fields, key) =>
            /\ arg \in DOMAIN c.arguments
            /\ At(fields, key) = Wrapped(c.arguments[arg])

\* C14: every free text JIRA receives as a rich document (description,
\* comment body, acceptance criteria, technical requirements) is sent as
\* the one-paragraph document around the input string, unchanged
C14_FreeTextWrapped ==
    \A s \in Called :
        LET c == calls[s]
        IN  (/\ server = "jira"
             /\ c.name \in {"create_issue", "update_issue", "add_comment"}
             /\ Lacking(c) = <<>>) =>
                /\ Len(c.requests) = 1
                /\ c.name = "add_comment" =>
                       c.requests[1].json = JObj(<< <<"body", Wrapped(c.arguments["comment"])>> >>)
                /\ c.name /= "add_comment" =>
                       /\ Carries(c, c.requests[1], "description", "description")
                       /\ (/\ "description" \in DOMAIN c.arguments
                           /\ c.arguments["description"].s /= "") =>
                              Has(At(c.requests[1].json, "fields"), "description")
                /\ c.name = "update_issue" =>
                       /\ Carries(c, c.requests[1], "customfield_10103", "acceptance_criteria")
                       /\ Carries(c, c.requests[1], "customfield_10104", "technical_requirements")
                       /\ "acceptance_criteria" \in DOMAIN c.arguments =>
                              Has(At(c.requests[1].json, "fields"), "customfield_10103")
                       /\ "technical_requirements" \in DOMAIN c.arguments =>
                              Has(At(c.requests[1].json, "fields"), "customfield_10104")

C14_Witness ==
    \E s \in Called :
        /\ server = "jira"
        /\ calls[s].name = "update_issue"
        /\ {"description", "acceptance_criteria"} \subseteq DOMAIN calls[s].arguments
        /\ calls[s].arguments["description"] = JStr("some description")
        /\ Len(calls[s].requests) = 1
        /\ At(At(calls[s].requests[1].json, "fields"), "description")
               = Wrapped(JStr("some description"))
        /\ Has(At(calls[s].requests[1].json, "fields"), "customfield_10103")

\* the description get_issue was answered with
Description(c) == At(At(c.replies[1].content, "fields"), "description")

\* a finished get_issue that applied the extractor to its description
Described(c) ==
    /\ GotIssue(c)
    /\ HasDescription(c.replies[1].content)
    /\ Truthy(Description(c))

\* the nodes the extractor is to descend into from `node`: the content of a
\* mapping, the elements of a sequence
Children(node) ==
    IF node.t = "list" THEN node.xs
    ELSE IF node.t = "obj" /\ Has(node, "content") /\ At(node, "content").t = "list"
    THEN At(node, "content").xs
    ELSE <<>>

TextTyped(node) ==
    node.t = "obj" /\ Has(node, "type") /\ At(node, "type") = [t |-> "str", s |-> "text"]

\* a finite tree of nodes: a content, where there is one, is a sequence and
\* a text, where there is one, is a string
RECURSIVE TreeShaped(_)
TreeShaped(node) ==
    /\ (node.t = "obj" /\ Has(node, "content")) => At(node, "content").t = "list"
    /\ (node.t = "obj" /\ Has(node, "text")) => At(node, "text").t = "str"
    /\ \A i \in 1..Len(Children(node)) : TreeShaped(Children(node)[i])

\* every node of the tree whose type is "text" has a text
RECURSIVE EveryTextHasValue(_)
EveryTextHasValue(node) ==
    /\ TextTyped(node) => Has(node, "text")
    /\ \A i \in 1..Len(Children(node)) : EveryTextHasValue(Children(node)[i])

\* the texts of the nodes of type "text", depth-first and left to right; a
\* node of type "text" without a text counts as `missing`
RECURSIVE TextValues(_, _), TextValuesFrom(_, _, _)
TextValuesFrom(nodes, i, missing) ==
    IF i > Len(nodes) THEN <<>>
    ELSE TextValues(nodes[i], missing) \o TextValuesFrom(nodes, i + 1, missing)
TextValues(node, missing) ==
    (IF ~TextTyped(node) THEN <<>>
     ELSE IF Has(node, "text") THEN <<At(node, "text").s>>
     ELSE missing)
    \o TextValuesFrom(Children(node), 1, missing)

\* the strings, with one space between neighbours
RECURSIVE SpaceJoined(_)
SpaceJoined(strings) ==
    IF strings = <<>> THEN ""
    ELSE IF Len(strings) = 1 THEN strings[1]
    ELSE SpaceJoined(SubSeq(strings, 1, Len(strings) - 1)) \o " " \o strings[Len(strings)]

\* the call returned the issue with `text` as its description_text
ReturnedDescriptionText(c, text) ==
    ReturnedText(c, Dumps(WithDescriptionText(c.replies[1].content,
                                              [t |-> "str", s |-> text]), 0))

\* C15: the extractor visits the nodes depth-first and left to right and
\* returns the texts of the nodes of type "text", in that order, with one
\* space between them; other nodes are skipped: (text a, emoji, text b)
\* gives "a b"
C15_TextsInOrder ==
    \A s \in Done :
        LET c == calls[s]
            d == Description(c)
        IN  /\ (Described(c) /\ TreeShaped(d) /\ EveryTextHasValue(d)) =>
                   /\ _extract_text_from_doc(d)
                          = [kind |-> "return", message |-> "",
                             value |-> [t |-> "str", s |-> SpaceJoined(TextValues(d, <<>>))]]
                   /\ c.outcome = "returned" /\ ~ErrorForm(c)
            /\ (Described(c)
                /\ d = JList(<<TextNode("a"), JObj(<< <<"type", JStr("emoji")>> >>),
                               TextNode("b")>>)) =>
                   ReturnedDescriptionText(c, "a b")

C15_Witness ==
    \E s \in Done :
        /\ Described(calls[s])
        /\ Description(calls[s]) \in Documents
        /\ Len(Children(Description(calls[s]))) = 2
        /\ TextValues(Description(calls[s]), <<>>) = <<"a", "a", "c">>
        /\ ReturnedDescriptionText(calls[s], "a a c")

\* C16 as stated: only a node of type "text" that has a text adds to the
\* output; a container, or a node of type "text" without a text, adds
\* nothing, no separator either, and never makes the extractor fail
C16_OnlyTextWithValueContributes ==
    \A s \in Done :
        LET c == calls[s]
            d == Description(c)
        IN  (Described(c) /\ TreeShaped(d)) =>
                /\ _extract_text_from_doc(d).kind = "return"
                /\ _extract_text_from_doc(d).value.s = SpaceJoined(TextValues(d, <<>>))

\* C16 amended: a node adds a part to the output if and only if its type is
\* "text": its text, or the empty string when it has none, which is joined
\* like any other part and so brings its separator; a container adds no
\* part; neither makes the extractor fail, and children are visited in order
C16_TextNodeWithoutTextIsEmptyPart ==
    \A s \in Done :
        LET c == calls[s]
            d == Description(c)
        IN  (Described(c) /\ TreeShaped(d)) =>
                /\ _extract_text_from_doc(d).kind = "return"
                /\ _extract_text_from_doc(d).value.s = SpaceJoined(TextValues(d, <<"">>))
                /\ c.outcome = "returned" /\ ~ErrorForm(c)

C16_Witness ==
    \E s \in Done :
        /\ Described(calls[s])
        /\ Description(calls[s]) \in Documents
        /\ Children(Description(calls[s]))
               = <<Paragraph(<<TextNode("a"), JObj(<< <<"type", JStr("text")>> >>)>>),
                   TextNode("b")>>
        /\ ReturnedDescriptionText(calls[s], "a  b")

\* the number of nodes of the tree
RECURSIVE Size(_), SizeFrom(_, _)
SizeFrom(nodes, i) ==
    IF i > Len(nodes) THEN 0 ELSE Size(nodes[i]) + SizeFrom(nodes, i + 1)
Size(node) == 1 + SizeFrom(Children(node), 1)

\* C17: the extractor terminates on every finite tree: it enters each node
\* once, descending only into content and sequence elements; nodes without
\* content or without type are no obstacle, and an input that is neither a
\* mapping nor a sequence gives the empty string
C17_OneVisitPerNode ==
    \A s \in Done :
        LET c == calls[s]
            d == Description(c)
        IN  (Described(c) /\ TreeShaped(d)) =>
                /\ extract_calls(d) = Size(d)
                /\ _extract_text_from_doc(d).kind = "return"
                /\ c.outcome = "returned" /\ ~ErrorForm(c)
                /\ d.t \notin {"obj", "list"} => ReturnedDescriptionText(c, "")
                /\ (d.t = "obj" /\ ~Has(d, "content") /\ ~Has(d, "type")) =>
                       ReturnedDescriptionText(c, "")

C17_Witness ==
    \E s \in Done :
        /\ Described(calls[s])
        /\ Description(calls[s]) = JObj(<< <<"content", JList(<<TextNode("n")>>)>>,
                                           <<"text", JStr("skipped")>> >>)
        /\ extract_calls(Description(calls[s])) = 2
        /\ ReturnedDescriptionText(calls[s], "n")

\* C18: the extractor gives back s from the one-paragraph document around
\* s: the description create_issue sends flattens to its argument, and
\* get_issue on such a description has description_text s
C18_RoundTrip ==
    \A s \in Called :
        LET c == calls[s]
            sent == At(At(c.requests[1].json, "fields"), "description")
        IN  /\ (/\ server = "jira"
                /\ c.name \in {"create_issue", "update_issue"}
                /\ Lacking(c) = <<>>
                /\ Has(At(c.requests[1].json, "fields"), "description")) =>
                   /\ "description" \in DOMAIN c.arguments
                   /\ _extract_text_from_doc(sent)
                          = [kind |-> "return", message |-> "",
                             value |-> c.arguments["description"]]
            /\ \A text \in Texts :
                   (c.pc = "done" /\ Described(c)
                    /\ Description(c) = Wrapped([t |-> "str", s |-> text])) =>
                       ReturnedDescriptionText(c, text)

C18_Witness ==
    \E s \in Done :
        /\ Described(calls[s])
        /\ Description(calls[s]) = Wrapped(JStr(" a  b "))
        /\ ReturnedDescriptionText(calls[s], " a  b ")
        /\ Contains(Text(calls[s]), "\"description_text\": \" a  b \"")

\* the names the chain of this server's call_tool compares with, in order
Branches == IF server = "jira" THEN Jira_call_tool_names ELSE Bitbucket_call_tool_names

\* every listed name has exactly one branch and every branch a listed name
JiraCorrespondence ==
    /\ \A i \in 1..Len(Jira_list_tools) :
           Cardinality({j \in 1..Len(Jira_call_tool_names) :
                           Jira_call_tool_names[j] = Jira_list_tools[i].name}) = 1
    /\ \A j \in 1..Len(Jira_call_tool_names) :
           Jira_call_tool_names[j] \in Names(Jira_list_tools)
    /\ Len(Jira_call_tool_names) = Len(Jira_list_tools)

BitbucketCorrespondence ==
    /\ \A i \in 1..Len(Bitbucket_list_tools) :
           Cardinality({j \in 1..Len(Bitbucket_call_tool_names) :
                           Bitbucket_call_tool_names[j] = Bitbucket_list_tools[i].name}) = 1
    /\ \A j \in 1..Len(Bitbucket_call_tool_names) :
           Bitbucket_call_tool_names[j] \in Names(Bitbucket_list_tools)
    /\ Len(Bitbucket_call_tool_names) = Len(Bitbucket_list_tools)

\* C19: registry and dispatcher correspond one to one: every listed name has
\* exactly one branch, which invokes a client method and so never answers
\* "Unknown tool", and every name with a branch is listed
C19_RegistryMatchesDispatcher ==
    /\ IF server = "jira" THEN JiraCorrespondence ELSE BitbucketCorrespondence
    /\ \A s \in Called :
           LET c == calls[s]
           IN  Registered(c.name) =>
                   /\ c.pc = "done" => ~UnknownForm(c)
                   /\ Lacking(c) = <<>> =>
                          /\ Len(c.requests) >= 1
                          /\ c.requests[1].method \in {"GET", "POST", "PUT", "DELETE"}
                          /\ StartsWith(c.requests[1].url, "https://")

C19_Witness ==
    \E s \in Done :
        /\ server = "jira"
        /\ calls[s].name = list_tools[Len(list_tools)].name
        /\ Len(calls[s].requests) = 1
        /\ JsonForm(calls[s])

\* the catalog of the process: the one of the server it was started as
Catalog == IF ctor.server = "jira" THEN Jira_list_tools ELSE Bitbucket_list_tools

\* C20: list_tools returns the same complete catalog (names, schemas, order)
\* on every call, whatever was dispatched before, and the names of a
\* catalog are pairwise distinct
C20_CatalogFixed ==
    listed /= <<>> =>
        /\ listed = Catalog
        /\ Len(listed) = Len(Branches)
        /\ Cardinality(Names(listed)) = Len(listed)

\* C20, between two calls: a call of list_tools returns what the call before
\* it returned
C20_CatalogUnchanged ==
    [][listed /= <<>> => listed' = listed]_vars

C20_Witness ==
    \E s \in Done :
        /\ calls[s].name = "create_issue"
        /\ Len(calls[s].replies) = 1
        /\ listed = Catalog
        /\ \E i \in 1..Len(listed) : listed[i].name = "create_issue"

\* the keys of a sequence
Keys(keys) == {keys[i] : i \in 1..Len(keys)}

\* for every tool of the catalog, the keys its branch reads as
\* arguments[key] are the keys its inputSchema requires
JiraAgreement ==
    \A i \in 1..Len(Jira_list_tools) :
        /\ Keys(Jira_call_tool_indexed(Jira_list_tools[i].name))
               = Keys(Jira_list_tools[i].required)
        /\ Keys(Jira_list_tools[i].required)
               \subseteq {Jira_list_tools[i].properties[j][1] :
                              j \in 1..Len(Jira_list_tools[i].properties)}

BitbucketAgreement ==
    \A i \in 1..Len(Bitbucket_list_tools) :
        /\ Keys(Bitbucket_call_tool_indexed(Bitbucket_list_tools[i].name))
               = Keys(Bitbucket_list_tools[i].required)
        /\ Keys(Bitbucket_list_tools[i].required)
               \subseteq {Bitbucket_list_tools[i].properties[j][1] :
                              j \in 1..Len(Bitbucket_list_tools[i].properties)}

\* the keys the branch of this server's call_tool reads as arguments[key]
Indexed(name) ==
    IF server = "jira" THEN Jira_call_tool_indexed(name)
    ELSE Bitbucket_call_tool_indexed(name)

\* C21: for every tool of either provider the arguments the dispatcher reads
\* unconditionally are exactly the arguments the inputSchema requires, and
\* an argument the schema leaves optional is read with a fallback: its
\* absence never makes the dispatch fail for that key
C21_SchemaAgreesWithDispatcher ==
    /\ IF server = "jira" THEN JiraAgreement ELSE BitbucketAgreement
    /\ \A s \in Called :
           LET c == calls[s]
               tool == ToolNamed(list_tools, c.name)
           IN  Registered(c.name) =>
                   /\ Missing(Indexed(c.name), c.arguments) = Lacking(c)
                   /\ \A j \in 1..Len(tool.properties) :
                          LET key == tool.properties[j][1]
                          IN  (/\ c.pc = "done"
                               /\ key \notin DOMAIN c.arguments
                               /\ ~InSeq(key, tool.required)) =>
                                  Text(c) /= "Error: " \o KeyErrorMessage(key)
                   /\ (c.pc = "done" /\ Lacking(c) = <<>>) =>
                          \A j \in 1..Len(tool.properties) :
                              Text(c) /= "Error: " \o KeyErrorMessage(tool.properties[j][1])

C21_Witness ==
    \E s \in Done :
        /\ server = "bitbucket"
        /\ calls[s].name = "create_pull_request"
        /\ DOMAIN calls[s].arguments
               = {"workspace", "repo_slug", "title", "source_branch", "destination_branch"}
        /\ Len(calls[s].requests) = 1
        /\ JsonForm(calls[s])

\* the defaults a catalog declares, as <<server, tool, key, default>>
DefaultsOf(provider, tools) ==
    UNION {{<<provider, tools[i].name, tools[i].defaults[j][1], tools[i].defaults[j][2]>> :
               j \in 1..Len(tools[i].defaults)} : i \in 1..Len(tools)}

DeclaredDefaults ==
    DefaultsOf("jira", Jira_list_tools) \cup DefaultsOf("bitbucket", Bitbucket_list_tools)

\* the key of the request body an argument with a default is sent under
BodyKey(key) ==
    CASE key = "merge_strategy" -> "type"
      [] key = "project_type_key" -> "projectTypeKey"
      [] key = "max_results" -> "maxResults"
      [] OTHER -> key

\* the defaults claimed to reach the request
SentDefaults ==
    {<<"bitbucket", "merge_pull_request", "merge_strategy", JStr("merge_commit")>>,
     <<"bitbucket", "create_repository", "is_private", JBool(TRUE)>>,
     <<"bitbucket", "create_pull_request", "close_source_branch", JBool(FALSE)>>,
     <<"bitbucket", "create_issue", "kind", JStr("bug")>>,
     <<"bitbucket", "create_issue", "priority", JStr("major")>>,
     <<"jira", "create_project", "project_type_key", JStr("software")>>,
     <<"jira", "search_issues", "max_results", JNum(50)>>}

\* the defaults claimed to reach the request are the catalogs' defaults, all
\* of them but the one of start_at
SentAreDeclared ==
    /\ SentDefaults \subseteq DeclaredDefaults
    /\ DeclaredDefaults \ SentDefaults = {<<"jira", "search_issues", "start_at", JNum(0)>>}

\* C22: an optional argument with a declared default, when absent, reaches
\* the request as the schema's default (merge type "merge_commit",
\* is_private true, close_source_branch false, kind "bug", priority "major",
\* projectTypeKey "software", maxResults 50); a supplied value, falsy ones
\* included, is sent instead
C22_DefaultsReachTheRequest ==
    /\ SentAreDeclared
    /\ \A s \in Called :
           LET c == calls[s]
           IN  \A d \in SentDefaults :
                   (/\ server = d[1]
                    /\ c.name = d[2]
                    /\ Lacking(c) = <<>>) =>
                       /\ Len(c.requests) = 1
                       /\ c.requests[1].json /= Absent
                       /\ Has(c.requests[1].json, BodyKey(d[3]))
                       /\ At(c.requests[1].json, BodyKey(d[3]))
                              = IF d[3] \in DOMAIN c.arguments THEN c.arguments[d[3]]
                                ELSE d[4]

C22_Witness ==
    \E s \in Done :
        /\ server = "bitbucket"
        /\ calls[s].name = "merge_pull_request"
        /\ Lacking(calls[s]) = <<>>
        /\ "merge_strategy" \notin DOMAIN calls[s].arguments
        /\ At(calls[s].requests[1].json, "type") = JStr("merge_commit")
        /\ JsonForm(calls[s])

\* the position of the handler of call c run alone, in a server built from
\* the same constructor inputs, after `replies`
Alone(c, replies) ==
    IF ctor.server = "jira"
    THEN Jira_call_tool(Construct(ctor), c.name, c.arguments, replies)
    ELSE Bitbucket_call_tool(Construct(ctor), c.name, c.arguments, replies)

\* the requests that handler has issued once it has got `replies`
RECURSIVE RequestsAlone(_, _)
RequestsAlone(c, replies) ==
    LET before == IF replies = <<>> THEN <<>>
                  ELSE RequestsAlone(c, SubSeq(replies, 1, Len(replies) - 1))
        h == Alone(c, replies)
    IN  IF h.pc = "awaiting" THEN Append(before, h.request) ELSE before

C24_StoredEqualInputs ==
    IF ctor.server = "jira"
    THEN /\ client.email = ctor.user
         /\ client.api_token = ctor.secret
         /\ client.jira_url = ctor.url
    ELSE /\ client.username = ctor.user
         /\ client.app_password = ctor.secret
         /\ client.BASE_URL = "https://api.bitbucket.org/2.0"

\* the string is `prefix` followed by slashes only
RECURSIVE SlashesAfter(_, _)
SlashesAfter(string, prefix) ==
    \/ string = prefix
    \/ /\ Len(string) > Len(prefix)
       /\ SubSeq(string, Len(string), Len(string)) = "/"
       /\ SlashesAfter(SubSeq(string, 1, Len(string) - 1), prefix)

\* C24 amended: the credential pair equals the constructor's inputs, and the
\* stored instance URL is the constructor's URL without its trailing
\* slashes; no operation, successful or failing, changes any of them
C24_StoredAsConstructed ==
    IF ctor.server = "jira"
    THEN /\ client.email = ctor.user
         /\ client.api_token = ctor.secret
         /\ SlashesAfter(ctor.url, client.jira_url)
         /\ SubSeq(client.jira_url, Len(client.jira_url), Len(client.jira_url)) /= "/"
    ELSE /\ client.username = ctor.user
         /\ client.app_password = ctor.secret
         /\ client.BASE_URL = "https://api.bitbucket.org/2.0"

C24_Witness ==
    \E s \in Done :
        /\ ctor.url = "https://acme.atlassian.net//"
        /\ client.jira_url = "https://acme.atlassian.net"
        /\ calls[s].name = "transition_issue"
        /\ Len(calls[s].replies) = 2
        /\ ~Failure(calls[s].replies[1])
        /\ Failure(calls[s].replies[2])
        /\ client.api_token = "token"

\* the JIRA tools of sprints and boards
AgileTools ==
    {"list_sprints", "get_sprint", "create_sprint", "move_issues_to_sprint",
     "list_boards", "get_board"}

\* the base path a request of the tool `name` is to be rooted at
BasePath(name) ==
    IF ctor.server = "bitbucket" THEN "https://api.bitbucket.org/2.0/"
    ELSE RStripSlash(ctor.url)
         \o (IF name \in AgileTools THEN "/rest/agile/1.0/" ELSE "/rest/api/3/")

\* C25: every request URL begins with the provider's base path: Bitbucket's
\* "https://api.bitbucket.org/2.0/", JIRA's instance URL without trailing
\* slashes followed by "/rest/agile/1.0/" for sprint and board tools and by
\* "/rest/api/3/" for the others, with one slash at the join
C25_RootedAtBasePath ==
    \A s \in Called :
        \A i \in 1..Len(calls[s].requests) :
            LET url == calls[s].requests[i].url
                instance == RStripSlash(ctor.url)
            IN  /\ StartsWith(url, BasePath(calls[s].name))
                /\ ctor.server = "jira" =>
                       /\ SubSeq(instance, Len(instance), Len(instance)) /= "/"
                       /\ StartsWith(url, instance \o "/rest/")
                       /\ ~StartsWith(url, instance \o "//")

C25_Witness ==
    \E s \in Done :
        /\ ctor.server = "jira"
        /\ ctor.url = "https://acme.atlassian.net//"
        /\ calls[s].name = "get_board"
        /\ Len(calls[s].requests) = 1
        /\ calls[s].requests[1].url = "https://acme.atlassian.net/rest/agile/1.0/board/7"

\* the mapping without the key
Without(arguments, key) == [k \in DOMAIN arguments \ {key} |-> arguments[k]]

\* the argument mappings that differ from `arguments` in start_at at most
StartAtVariants(arguments) ==
    {Without(arguments, "start_at")}
    \cup {("start_at" :> v) @@ arguments : v \in {JNum(0), JNum(10), JNum(25)}}

\* C26: start_at has no influence on JIRA search_issues: the body holds jql
\* and maxResults and never startAt, and a dispatch that differs in
\* start_at only issues the same requests and, on the same replies, returns
\* the same result
C26_StartAtUnused ==
    \A s \in Called :
        LET c == calls[s]
        IN  (server = "jira" /\ c.name = "search_issues" /\ Lacking(c) = <<>>) =>
                /\ Len(c.requests) = 1
                /\ [i \in 1..Len(c.requests[1].json.kv) |-> c.requests[1].json.kv[i][1]]
                       = <<"jql", "maxResults">>
                /\ \A arguments \in StartAtVariants(c.arguments) :
                       LET other == [name |-> c.name, arguments |-> arguments]
                       IN  /\ RequestsAlone(other, c.replies) = c.requests
                           /\ Alone(other, c.replies).pc = c.pc
                           /\ Alone(other, c.replies).response = c.response

C26_Witness ==
    \E s \in Done :
        /\ server = "jira"
        /\ calls[s].name = "search_issues"
        /\ Lacking(calls[s]) = <<>>
        /\ Len(calls[s].requests) = 1
        /\ "start_at" \in DOMAIN calls[s].arguments
        /\ calls[s].arguments["start_at"] = JNum(10)
        /\ calls[s].requests[1].json
               = JObj(<< <<"jql", calls[s].arguments["jql"]>>, <<"maxResults", JNum(50)>> >>)
        /\ JsonForm(calls[s])

\* the reply's body lists a transition of that name, letter case aside
ListsNamed(reply, name) ==
    /\ reply.content /= Invalid
    /\ reply.content.t = "obj"
    /\ Has(reply.content, "transitions")
    /\ At(reply.content, "transitions").t = "list"
    /\ \E i \in 1..Len(At(reply.content, "transitions").xs) :
           LET entry == At(reply.content, "transitions").xs[i]
           IN  /\ entry.t = "obj"
               /\ Has(entry, "name")
               /\ At(entry, "name").t = "str"
               /\ Named(entry, name)

\* C27: no dispatch issues more than two HTTP calls, and none before the
\* one before it has completed; transition_issue by name issues the GET
\* first and the POST only after the GET's reply, and only if that reply
\* is a 2xx that lists a transition of the requested name
C27_GetThenGuardedPost ==
    \A s \in Called :
        LET c == calls[s]
        IN  /\ Len(c.requests) <= 2
            /\ Len(c.requests) <= Len(c.replies) + 1
            /\ c.pc = "awaiting" => Len(c.requests) = Len(c.replies) + 1
            /\ (ByName(c) /\ Lacking(c) = <<>>) =>
                   /\ c.requests[1].method = "GET"
                   /\ Len(c.requests) = 2 =>
                          /\ c.requests[2].method = "POST"
                          /\ ~Failure(c.replies[1])
                          /\ ListsNamed(c.replies[1], c.arguments["transition_name"].s)
            /\ Len(c.requests) = 2 => ByName(c)

C27_Witness ==
    \E s \in Called :
        /\ ByName(calls[s])
        /\ calls[s].pc = "awaiting"
        /\ Len(calls[s].replies) = 1
        /\ Len(calls[s].requests) = 2
        /\ calls[s].requests[1].method = "GET"
        /\ calls[s].requests[2].method = "POST"

\* JIRA transition_issue called with a transition_id that is not empty
ById(c) ==
    /\ server = "jira"
    /\ c.name = "transition_issue"
    /\ Lacking(c) = <<>>
    /\ Truthy(Get(c.arguments, "transition_id", JNull))

\* C28: transition_issue with a non-empty transition_id never fetches the
\* transitions: its one request is the POST of that id, and a
\* transition_name given alongside changes neither the request nor the
\* result
C28_IdSkipsLookup ==
    \A s \in Called :
        LET c == calls[s]
            url == client.jira_url \o "/rest/api/3/issue/"
                       \o c.arguments["issue_key"].s \o "/transitions"
            unnamed == [name |-> c.name,
                        arguments |-> Without(c.arguments, "transition_name")]
        IN  ById(c) =>
                /\ c.requests = <<Request("POST", url, Absent,
                                          JObj(<< <<"transition",
                                                    JObj(<< <<"id", c.arguments["transition_id"]>> >>)>> >>))>>
                /\ RequestsAlone(unnamed, c.replies) = c.requests
                /\ Alone(unnamed, c.replies).pc = c.pc
                /\ Alone(unnamed, c.replies).response = c.response
                /\ (c.pc = "done" /\ ~Failure(c.replies[1])) =>
                       ReturnedText(c, Dumps(JObj(<< <<"status", JStr("transitioned")>>,
                                                    <<"issue_key", c.arguments["issue_key"]>> >>), 0))

C28_Witness ==
    \E s \in Done :
        /\ ById(calls[s])
        /\ calls[s].arguments["transition_id"] = JStr("41")
        /\ "transition_name" \in DOMAIN calls[s].arguments
        /\ calls[s].arguments["transition_name"] = JStr("Unknown")
        /\ Len(calls[s].requests) = 1
        /\ calls[s].requests[1].method = "POST"
        /\ ~Failure(calls[s].replies[1])
        /\ JsonForm(calls[s])

\* the text of the "not found" error of a call by name
NotFoundText(c) ==
    "Error: Transition '" \o c.arguments["transition_name"].s
        \o "' not found for issue " \o c.arguments["issue_key"].s

\* the positions of the fetched entries whose name is the requested one,
\* letter case aside
Matching(c) ==
    LET entries == At(c.replies[1].content, "transitions").xs
    IN  {i \in 1..Len(entries) : Named(entries[i], c.arguments["transition_name"].s)}

\* a call by name that has got a 2xx list of transitions, each with a name
\* and an id
Fetched(c) ==
    /\ ByName(c)
    /\ Lacking(c) = <<>>
    /\ Len(c.replies) >= 1
    /\ ListsTransitions(c.replies[1])

\* C29 as stated: transition_issue by name ends in the "Transition '...' not
\* found" error if and only if no fetched transition has the requested
\* name, letter case aside; when one has, the POST carries the id of the
\* first such entry, whatever that id is
C29_NotFoundIffNoMatch ==
    \A s \in Called :
        LET c == calls[s]
            entries == At(c.replies[1].content, "transitions").xs
            first == CHOOSE i \in Matching(c) : \A j \in Matching(c) : i <= j
        IN  Fetched(c) =>
                /\ (c.pc = "done" /\ Len(c.requests) = 1 /\ Text(c) = NotFoundText(c))
                       <=> Matching(c) = {}
                /\ Matching(c) /= {} =>
                       /\ Len(c.requests) = 2
                       /\ c.requests[2].method = "POST"
                       /\ At(At(c.requests[2].json, "transition"), "id")
                              = At(entries[first], "id")

\* C29 where the code agrees with it: the same, for fetched lists in which
\* the first entry of the requested name has an id that is not empty
C29_NotFoundIffNoMatchWithId ==
    \A s \in Called :
        LET c == calls[s]
            entries == At(c.replies[1].content, "transitions").xs
            first == CHOOSE i \in Matching(c) : \A j \in Matching(c) : i <= j
        IN  (Fetched(c) /\ (Matching(c) /= {} => Truthy(At(entries[first], "id")))) =>
                /\ (c.pc = "done" /\ Len(c.requests) = 1 /\ Text(c) = NotFoundText(c))
                       <=> Matching(c) = {}
                /\ Matching(c) /= {} =>
                       /\ Len(c.requests) = 2
                       /\ c.requests[2].method = "POST"
                       /\ At(At(c.requests[2].json, "transition"), "id")
                              = At(entries[first], "id")

\* the optional arguments of update_issue, in the order the body is built:
\* <<argument, body field, sent only when not empty>>
UpdateFields ==
    << <<"summary", "summary", TRUE>>,
       <<"description", "description", TRUE>>,
       <<"priority", "priority", TRUE>>,
       <<"assignee_id", "assignee", TRUE>>,
       <<"labels", "labels", FALSE>>,
       <<"story_points", "customfield_10105", FALSE>>,
       <<"sprint", "customfield_10106", FALSE>>,
       <<"acceptance_criteria", "customfield_10103", FALSE>>,
       <<"technical_requirements", "customfield_10104", FALSE>> >>

\* the value the body field of an argument is to hold
UpdateValue(argument, v) ==
    CASE argument = "priority" -> [t |-> "obj", kv |-> << <<"name", v>> >>]
      [] argument = "assignee_id" -> [t |-> "obj", kv |-> << <<"id", v>> >>]
      [] argument \in {"description", "acceptance_criteria", "technical_requirements"} ->
             Wrapped(v)
      [] OTHER -> v

\* whether update_issue is to send the argument of UpdateFields[i]
UpdateSends(c, i) ==
    /\ UpdateFields[i][1] \in DOMAIN c.arguments
    /\ c.arguments[UpdateFields[i][1]].t /= "null"
    /\ UpdateFields[i][3] => Truthy(c.arguments[UpdateFields[i][1]])

\* C30: JIRA update_issue sends summary, description, priority and
\* assignee only when supplied and not empty, and labels, story points,
\* sprint, acceptance criteria and technical requirements whenever supplied
\* and not null, ([], 0 and "" included); the body holds nothing else, it
\* is {fields: {}} when no optional argument is supplied, and on a 2xx the
\* result is {status: "updated", issue_key}
C30_UpdateFieldByField ==
    \A s \in Called :
        LET c == calls[s]
            fields == At(c.requests[1].json, "fields")
            sent == {i \in 1..Len(UpdateFields) : UpdateSends(c, i)}
        IN  (server = "jira" /\ c.name = "update_issue" /\ Lacking(c) = <<>>) =>
                /\ Len(c.requests) = 1
                /\ c.requests[1].method = "PUT"
                /\ c.requests[1].url = client.jira_url \o "/rest/api/3/issue/"
                                           \o c.arguments["issue_key"].s
                /\ Len(c.requests[1].json.kv) = 1
                /\ Has(c.requests[1].json, "fields")
                /\ \A i \in 1..Len(UpdateFields) :
                       /\ Has(fields, UpdateFields[i][2]) <=> i \in sent
                       /\ i \in sent =>
                              At(fields, UpdateFields[i][2])
                                  = UpdateValue(UpdateFields[i][1],
                                                c.arguments[UpdateFields[i][1]])
                /\ Len(fields.kv) = Cardinality(sent)
                /\ DOMAIN c.arguments = {"issue_key"} =>
                       c.requests[1].json
                           = [t |-> "obj", kv |-> << <<"fields", [t |-> "obj", kv |-> <<>>]>> >>]
                /\ (c.pc = "done" /\ ~Failure(c.replies[1])) =>
                       ReturnedText(c, Dumps(JObj(<< <<"status", JStr("updated")>>,
                                                    <<"issue_key", c.arguments["issue_key"]>> >>), 0))

C30_Witness ==
    \E s \in Done :
        /\ server = "jira"
        /\ calls[s].name = "update_issue"
        /\ DOMAIN calls[s].arguments = {"issue_key", "labels", "story_points"}
        /\ Len(calls[s].requests) = 1
        /\ At(calls[s].requests[1].json, "fields")
               = JObj(<< <<"labels", JList(<<>>)>>, <<"customfield_10105", JNum(0)>> >>)
        /\ ~Failure(calls[s].replies[1])
        /\ JsonForm(calls[s])

====
